---------------------------- MODULE Spec2Model ----------------------------
(***************************************************************************)
(* Model of the BAML content-extraction service                            *)
(* (src/services/baml-service/src): the in-process cache store, the LLM    *)
(* client with its retry decorator, and the extraction orchestrator.       *)
(*                                                                         *)
(* Python values are represented as follows.                               *)
(*   Optional[x]   None is <<>>, a present value x is <<x>>                *)
(*   dict          a function whose DOMAIN is the set of stored keys       *)
(*   list          a sequence                                              *)
(*   exception     the name of the raised class as a string, "" for none   *)
(***************************************************************************)
EXTENDS Integers, Sequences, FiniteSets, TLC

(***************************************************************************)
(* Bounds of the model                                                     *)
(***************************************************************************)
\* the event-loop clock runs from 0 to MaxTime
MaxTime == 2

\* the max_size values a MemoryCache is constructed with
Capacities == {1, 2}
\* cache keys, cached values and the ttl arguments callers pass
Keys == {"k1", "k2", "k3"}
Values == {"v1", "v2"}
None == <<>>
Some(x) == <<x>>
TTLs == {None, Some(0), Some(1), Some(-1)}

\* the concurrent callers of the store, and the (smaller) inputs they draw
Tasks == {"t1", "t2"}
ConcKeys == {"k1", "k2"}
ConcValues == {"v1"}
ConcTTLs == {None, Some(-1)}

\* CacheService.__init__: ttl
CacheService_ttl == 3600

VARIABLES
    cache,          \* MemoryCache._cache: key -> [value, ttl, created_at]
    access_order,   \* MemoryCache._access_order: list of keys, oldest first
    max_size,       \* MemoryCache.max_size
    now,            \* asyncio.get_event_loop().time()
    last,           \* the call that produced this state, with what it returned
    lastAccess,     \* history: rank of each stored key's last access (1 = oldest)
    lock,           \* MemoryCache._lock: None, or Some(task holding it)
    pc,             \* per task: "idle", "acquire" (at async with) or "locked"
    req,            \* per task: the call it is making
    llm,            \* per task: its call of the LLM client (OpenAIService)
    ext,            \* per task: its call of ExtractionService.extract_content
    batch,          \* the call of ExtractionService.extract_batch
    keycalls        \* two calls of CacheService.generate_cache_key, compared

cacheVars == <<cache, access_order, max_size, now, last, lastAccess>>
taskVars == <<lock, pc, req>>
extVars == <<llm, ext, batch, keycalls>>
vars == <<cache, access_order, max_size, now, last, lastAccess, lock, pc, req, llm, ext,
         batch, keycalls>>

(***************************************************************************)
(* Python helpers                                                          *)
(***************************************************************************)
\* truthiness of an Optional[int]: None and 0 are falsy
Truthy(x) == x # None /\ x[1] # 0

\* x in lst
InList(lst, x) == \E i \in 1..Len(lst) : lst[i] = x

\* index of the first occurrence of x in lst (x must occur)
IndexOf(lst, x) == CHOOSE i \in 1..Len(lst) : lst[i] = x /\ \A j \in 1..(i-1) : lst[j] # x

\* lst after lst.remove(x): the first occurrence of x is removed
ListRemove(lst, x) ==
    LET i == IndexOf(lst, x)
    IN  [j \in 1..(Len(lst) - 1) |-> IF j < i THEN lst[j] ELSE lst[j + 1]]

\* d after del d[k]
DictDel(d, k) == [j \in (DOMAIN d) \ {k} |-> d[j]]

\* d after d[k] = e
DictPut(d, k, e) == [j \in (DOMAIN d) \cup {k} |-> IF j = k THEN e ELSE d[j]]

(***************************************************************************)
(* MemoryCache (cache_service.py).  Each operator is the body of one       *)
(* method, run under self._lock: it maps the store (c, ao), the clock t    *)
(* and the arguments to the store afterwards, the value returned and the   *)
(* exception raised.                                                       *)
(***************************************************************************)
\* a bug: the key is dropped from the entry map only
MemoryCache_remove_key_KeepsOrder(c, ao, key) ==
    IF key \in DOMAIN c
    THEN [cache |-> DictDel(c, key), access_order |-> ao, ok |-> TRUE]
    ELSE [cache |-> c, access_order |-> ao, ok |-> FALSE]

MemoryCache_remove_key(c, ao, key) ==
    IF key \in DOMAIN c
    THEN [cache |-> DictDel(c, key),
          access_order |-> IF InList(ao, key) THEN ListRemove(ao, key) ELSE ao,
          ok |-> TRUE]
    ELSE [cache |-> c, access_order |-> ao, ok |-> FALSE]

\* the expiry test of get: ttl is set and truthy, and the age exceeds it
Expired(entry, t) == Truthy(entry.ttl) /\ t - entry.created_at > entry.ttl[1]

MemoryCache_get(c, ao, t, key) ==
    IF key \in DOMAIN c
    THEN IF Expired(c[key], t)
         THEN LET r == MemoryCache_remove_key(c, ao, key)
              IN  [cache |-> r.cache, access_order |-> r.access_order,
                   ret |-> None, exc |-> ""]
         ELSE IF ~InList(ao, key)
              THEN [cache |-> c, access_order |-> ao, ret |-> None,
                    exc |-> "ValueError"]
              ELSE [cache |-> c, access_order |-> Append(ListRemove(ao, key), key),
                    ret |-> Some(c[key].value), exc |-> ""]
    ELSE [cache |-> c, access_order |-> ao, ret |-> None, exc |-> ""]

\* the body of set with its three decisions as parameters: whether to evict,
\* which position of the recency list to pop, and whether to store the entry
SetWith(c, ao, t, key, value, ttl, evict, victimAt, store) ==
    IF evict /\ ao = <<>>
    THEN [cache |-> c, access_order |-> ao, ok |-> FALSE, exc |-> "IndexError",
          evicted |-> None]
    ELSE LET oldest_key == ao[victimAt]
             ao1 == IF evict THEN ListRemove(ao, oldest_key) ELSE ao
             c1 == IF evict THEN DictDel(c, oldest_key) ELSE c
             c2 == IF store
                   THEN DictPut(c1, key, [value |-> value, ttl |-> ttl, created_at |-> t])
                   ELSE c1
             ao2 == IF InList(ao1, key) THEN ao1 ELSE Append(ao1, key)
         IN  IF evict /\ oldest_key \notin DOMAIN c
             THEN [cache |-> c, access_order |-> ao1, ok |-> FALSE, exc |-> "KeyError",
                   evicted |-> None]
             ELSE [cache |-> c2, access_order |-> ao2, ok |-> TRUE, exc |-> "",
                   evicted |-> IF evict THEN Some(oldest_key) ELSE None]

\* a bug: pop() instead of pop(0), the newest key is evicted
MemoryCache_set_PopNewest(c, ao, cap, t, key, value, ttl) ==
    SetWith(c, ao, t, key, value, ttl,
            Cardinality(DOMAIN c) >= cap /\ key \notin DOMAIN c, Len(ao), TRUE)

\* a bug: > instead of >= in the capacity test
MemoryCache_set_OffByOne(c, ao, cap, t, key, value, ttl) ==
    SetWith(c, ao, t, key, value, ttl,
            Cardinality(DOMAIN c) > cap /\ key \notin DOMAIN c, 1, TRUE)

\* a bug: a stored key keeps its old entry
MemoryCache_set_NoOverwrite(c, ao, cap, t, key, value, ttl) ==
    SetWith(c, ao, t, key, value, ttl,
            Cardinality(DOMAIN c) >= cap /\ key \notin DOMAIN c, 1, key \notin DOMAIN c)

MemoryCache_set(c, ao, cap, t, key, value, ttl) ==
    SetWith(c, ao, t, key, value, ttl,
            Cardinality(DOMAIN c) >= cap /\ key \notin DOMAIN c, 1, TRUE)

MemoryCache_delete(c, ao, key) == MemoryCache_remove_key(c, ao, key)

(***************************************************************************)
(* CacheService over the MemoryCache backend: every backend exception is   *)
(* caught; get then returns None, set and delete return False.             *)
(***************************************************************************)
\* a bug: the exception of the backend is passed on to the caller
CatchGet_Propagates(r) == r

\* `try: return await self.backend.get(key)` / `except Exception: return None`
CatchGet(r) == [r EXCEPT !.ret = IF r.exc # "" THEN None ELSE r.ret, !.exc = ""]

\* a bug: the exception of the backend is passed on to the caller
CatchSet_Propagates(r) == r

\* `try: return await self.backend.set(...)` / `except Exception: return False`
\* (delete has the same shape)
CatchSet(r) == [r EXCEPT !.ok = IF r.exc # "" THEN FALSE ELSE r.ok, !.exc = ""]

CacheService_get(c, ao, t, key) == CatchGet(MemoryCache_get(c, ao, t, key))

CacheService_set(c, ao, cap, t, key, value, ttl) ==
    CatchSet(MemoryCache_set(c, ao, cap, t, key, value,
                             IF Truthy(ttl) THEN ttl ELSE Some(CacheService_ttl)))

CacheService_delete(c, ao, key) == MemoryCache_delete(c, ao, key)

(***************************************************************************)
(* A backend whose call may not go through.  fault = "" is the MemoryCache *)
(* above.  With fault = "raise" the call raises (a transport error of a    *)
(* remote store, or any error inside the backend); with fault = "fail" the *)
(* backend catches the error itself and reports failure, as RedisCache     *)
(* does (get returns None, set and delete return False).  A call that does *)
(* not go through leaves the store as it was.                              *)
(***************************************************************************)
Faults == {"raise", "fail"}
BackendError == "ConnectionError"

Backend_get(c, ao, t, key, fault) ==
    IF fault = ""
    THEN MemoryCache_get(c, ao, t, key)
    ELSE [cache |-> c, access_order |-> ao, ret |-> None,
          exc |-> IF fault = "raise" THEN BackendError ELSE ""]

Backend_set(c, ao, cap, t, key, value, ttl, fault) ==
    IF fault = ""
    THEN MemoryCache_set(c, ao, cap, t, key, value, ttl)
    ELSE [cache |-> c, access_order |-> ao, ok |-> FALSE,
          exc |-> IF fault = "raise" THEN BackendError ELSE "", evicted |-> None]

Backend_delete(c, ao, key, fault) ==
    IF fault = ""
    THEN LET r == MemoryCache_delete(c, ao, key)
         IN  [cache |-> r.cache, access_order |-> r.access_order, ok |-> r.ok, exc |-> ""]
    ELSE [cache |-> c, access_order |-> ao, ok |-> FALSE,
          exc |-> IF fault = "raise" THEN BackendError ELSE ""]

CacheService_get_with(c, ao, t, key, fault) == CatchGet(Backend_get(c, ao, t, key, fault))

CacheService_set_with(c, ao, cap, t, key, value, ttl, fault) ==
    CatchSet(Backend_set(c, ao, cap, t, key, value,
                         IF Truthy(ttl) THEN ttl ELSE Some(CacheService_ttl), fault))

CacheService_delete_with(c, ao, key, fault) == CatchSet(Backend_delete(c, ao, key, fault))

(***************************************************************************)
(* History of accesses, kept beside the store to state what "least         *)
(* recently accessed" means: a key is accessed when a set inserts it and   *)
(* when a get returns its value.  Ranks are 1..n, 1 the oldest.            *)
(***************************************************************************)
Renumber(la) ==
    [k \in DOMAIN la |-> Cardinality({j \in DOMAIN la : la[j] <= la[k]})]

Touch(la, k) ==
    Renumber([j \in (DOMAIN la) \cup {k} |->
                 IF j = k THEN Cardinality(DOMAIN la) + 2 ELSE la[j]])

Forget(la, gone) == Renumber([j \in (DOMAIN la) \ gone |-> la[j]])

\* the history after a call that took the store from c to c1
AccessAfter(la, c, c1, touched) ==
    LET kept == Forget(la, (DOMAIN c) \ (DOMAIN c1))
    IN  IF touched = None THEN kept ELSE Touch(kept, touched[1])

\* no call of generate_cache_key is under comparison
NoKeyCalls == <<>>

\* extract_batch has not been called
NoBatch == [pc |-> "idle", requests |-> <<>>, results |-> <<>>, completed |-> <<>>]

\* the record of a call: what was called, what it returned, the key a set
\* evicted, for a get whether the call just before it was a set of its key
\* and whether it found its entry expired and removed it
NoCall == [op |-> "init", key |-> "", value |-> "", ttl |-> None,
           ret |-> None, ok |-> FALSE, exc |-> "", evicted |-> None,
           follows_set |-> FALSE, expired |-> FALSE]

Called(op, key) ==
    [NoCall EXCEPT !.op = op, !.key = key,
                   !.follows_set = (op = "get" /\ last.op = "set" /\ last.key = key)]

(***************************************************************************)
(* The store driven by one caller at a time (the lock is always free when  *)
(* a call starts, so a call is one step)                                   *)
(***************************************************************************)
InitStore ==
    /\ cache = <<>>
    /\ access_order = <<>>
    /\ max_size \in Capacities
    /\ now = 0
    /\ last = NoCall
    /\ lastAccess = <<>>

InitCache ==
    /\ InitStore
    /\ lock = None
    /\ pc = <<>>
    /\ req = <<>>
    /\ llm = <<>>
    /\ ext = <<>>
    /\ batch = NoBatch
    /\ keycalls = NoKeyCalls

\* the effect of a finished get / set / delete on the store and the history
DoneGet(key, r) ==
    /\ cache' = r.cache
    /\ access_order' = r.access_order
    /\ last' = [Called("get", key) EXCEPT !.ret = r.ret, !.exc = r.exc,
                    !.expired = (key \in DOMAIN cache /\ key \notin DOMAIN r.cache)]
    /\ lastAccess' = AccessAfter(lastAccess, cache, r.cache,
                                 IF r.ret # None THEN Some(key) ELSE None)
    /\ UNCHANGED <<max_size, now>>

DoneSet(key, value, ttl, r) ==
    /\ cache' = r.cache
    /\ access_order' = r.access_order
    /\ last' = [Called("set", key) EXCEPT !.value = value, !.ttl = ttl,
                    !.ok = r.ok, !.exc = r.exc, !.evicted = r.evicted]
    /\ lastAccess' = AccessAfter(lastAccess, cache, r.cache,
                                 IF key \notin DOMAIN cache /\ r.ok
                                 THEN Some(key) ELSE None)
    /\ UNCHANGED <<max_size, now>>

DoneDelete(key, r) ==
    /\ cache' = r.cache
    /\ access_order' = r.access_order
    /\ last' = [Called("delete", key) EXCEPT !.ok = r.ok]
    /\ lastAccess' = AccessAfter(lastAccess, cache, r.cache, None)
    /\ UNCHANGED <<max_size, now>>

Get(key) ==
    /\ DoneGet(key, MemoryCache_get(cache, access_order, now, key))
    /\ UNCHANGED <<taskVars, extVars>>

Set(key, value, ttl) ==
    /\ DoneSet(key, value, ttl,
               MemoryCache_set(cache, access_order, max_size, now, key, value, ttl))
    /\ UNCHANGED <<taskVars, extVars>>

Delete(key) ==
    /\ DoneDelete(key, MemoryCache_delete(cache, access_order, key))
    /\ UNCHANGED <<taskVars, extVars>>

ServiceGet(key) ==
    /\ DoneGet(key, CacheService_get(cache, access_order, now, key))
    /\ UNCHANGED <<taskVars, extVars>>

ServiceSet(key, value, ttl) ==
    /\ DoneSet(key, value, ttl,
               CacheService_set(cache, access_order, max_size, now, key, value, ttl))
    /\ UNCHANGED <<taskVars, extVars>>

ServiceDelete(key) ==
    /\ DoneDelete(key, CacheService_delete(cache, access_order, key))
    /\ UNCHANGED <<taskVars, extVars>>

\* the event-loop clock advances between calls
Tick ==
    /\ now < MaxTime
    /\ now' = now + 1
    /\ last' = [NoCall EXCEPT !.op = "tick"]
    /\ UNCHANGED <<cache, access_order, max_size, lastAccess>>
    /\ UNCHANGED <<taskVars, extVars>>

NextCache ==
    \/ \E k \in Keys : Get(k)
    \/ \E k \in Keys, v \in Values, ttl \in TTLs : Set(k, v, ttl)
    \/ \E k \in Keys : Delete(k)
    \/ \E k \in Keys : ServiceGet(k)
    \/ \E k \in Keys, v \in Values, ttl \in TTLs : ServiceSet(k, v, ttl)
    \/ \E k \in Keys : ServiceDelete(k)
    \/ Tick

SpecCache == InitCache /\ [][NextCache]_vars

(***************************************************************************)
(* The store called by concurrent tasks.  A call reaches `async with       *)
(* self._lock`, waits there until the lock is free, takes it, runs the     *)
(* method body and releases the lock on leaving the block (also when the   *)
(* body raises).  No body awaits anything that suspends, so a body is one  *)
(* step.                                                                   *)
(***************************************************************************)
NoReq == [op |-> "", key |-> "", value |-> "", ttl |-> None]

ConcRequests ==
    {[NoReq EXCEPT !.op = o, !.key = k] : o \in {"get", "delete"}, k \in ConcKeys}
    \cup {[op |-> "set", key |-> k, value |-> v, ttl |-> l] :
             k \in ConcKeys, v \in ConcValues, l \in ConcTTLs}

InitConc ==
    /\ InitStore
    /\ lock = None
    /\ pc = [t \in Tasks |-> "idle"]
    /\ req = [t \in Tasks |-> NoReq]
    /\ llm = <<>>
    /\ ext = <<>>
    /\ batch = NoBatch
    /\ keycalls = NoKeyCalls

\* a task calls get, set or delete and arrives at the lock
Call(t, r) ==
    /\ pc[t] = "idle"
    /\ pc' = [pc EXCEPT ![t] = "acquire"]
    /\ req' = [req EXCEPT ![t] = r]
    /\ UNCHANGED <<cacheVars, lock, extVars>>

\* asyncio.Lock.acquire: granted only while nobody holds the lock
Acquire(t) ==
    /\ pc[t] = "acquire"
    /\ lock = None
    /\ lock' = Some(t)
    /\ pc' = [pc EXCEPT ![t] = "locked"]
    /\ UNCHANGED <<cacheVars, req, extVars>>

\* a bug: the block is left with the lock still held
Release_KeepsLock(t) ==
    /\ lock' = lock
    /\ pc' = [pc EXCEPT ![t] = "idle"]
    /\ req' = [req EXCEPT ![t] = NoReq]
    /\ UNCHANGED extVars

\* leaving the async with block
Release(t) ==
    /\ lock' = None
    /\ pc' = [pc EXCEPT ![t] = "idle"]
    /\ req' = [req EXCEPT ![t] = NoReq]
    /\ UNCHANGED extVars

RunGet(t) ==
    /\ pc[t] = "locked" /\ lock = Some(t) /\ req[t].op = "get"
    /\ DoneGet(req[t].key, MemoryCache_get(cache, access_order, now, req[t].key))
    /\ Release(t)

RunSet(t) ==
    /\ pc[t] = "locked" /\ lock = Some(t) /\ req[t].op = "set"
    /\ DoneSet(req[t].key, req[t].value, req[t].ttl,
               MemoryCache_set(cache, access_order, max_size, now,
                               req[t].key, req[t].value, req[t].ttl))
    /\ Release(t)

RunDelete(t) ==
    /\ pc[t] = "locked" /\ lock = Some(t) /\ req[t].op = "delete"
    /\ DoneDelete(req[t].key, MemoryCache_delete(cache, access_order, req[t].key))
    /\ Release(t)

NextConc ==
    \/ \E t \in Tasks, r \in ConcRequests : Call(t, r)
    \/ \E t \in Tasks : Acquire(t)
    \/ \E t \in Tasks : RunGet(t)
    \/ \E t \in Tasks : RunSet(t)
    \/ \E t \in Tasks : RunDelete(t)
    \/ Tick

SpecConc == InitConc /\ [][NextConc]_vars

\* the calls at one instant of the clock (an entry whose ttl is negative is
\* expired at once).  The event loop runs every task that can run: a body
\* that holds the lock runs to the end of its block (it awaits nothing that
\* suspends), and asyncio.Lock wakes its waiters first come first served,
\* so a waiter is not passed over for ever
NextConcLive ==
    \/ \E t \in Tasks, r \in ConcRequests : Call(t, r)
    \/ \E t \in Tasks : Acquire(t)
    \/ \E t \in Tasks : RunGet(t)
    \/ \E t \in Tasks : RunSet(t)
    \/ \E t \in Tasks : RunDelete(t)

SpecConcLive ==
    /\ InitConc
    /\ [][NextConcLive]_vars
    /\ \A t \in Tasks : SF_vars(Acquire(t))
    /\ \A t \in Tasks : WF_vars(RunGet(t) \/ RunSet(t) \/ RunDelete(t))

(***************************************************************************)
(* OpenAIService (openai_service.py): extract_content and                  *)
(* generate_embedding, each wrapped by tenacity's @retry with              *)
(* get_openai_retry_config().  The provider is the environment: every      *)
(* invocation either returns a response or raises one of the openai        *)
(* exception classes.                                                      *)
(***************************************************************************)
\* stop_after_attempt(3)
MaxAttempts == 3

\* the classes named by retry_if_exception_type
TransientErrors ==
    {"RateLimitError", "APITimeoutError", "APIConnectionError", "InternalServerError"}
\* provider failures outside that set
FatalErrors == {"AuthenticationError", "BadRequestError"}

\* a string of an entity, as the scorer reads it (see ConfidenceScorer below)
Str(chars, padding, kind) == [chars |-> chars, padding |-> padding, kind |-> kind]

\* entities the provider extracts: an event with title, date and location
\* (it scores 0.75), one with a title and a malformed date (0.40), the event
\* of test_extract_content_success with a title and a date (0.55), and a
\* speaker with name, title and company (0.80)
GoodEvent ==
    [title |-> Str(10, 0, "plain"), date |-> Str(10, 0, "date"),
     location |-> Str(8, 0, "plain")]
WeakEvent == [title |-> Str(10, 0, "plain"), date |-> Str(6, 0, "plain")]
TestEvent == [title |-> Str(10, 0, "plain"), date |-> Str(10, 0, "date")]
GoodSpeaker ==
    [name |-> Str(8, 0, "plain"), title |-> Str(5, 0, "plain"),
     company |-> Str(4, 0, "plain")]

\* the JSON object of an extraction with all its top-level keys
Dataset(events, speakers, companies) ==
    [events |-> events, speakers |-> speakers, companies |-> companies,
     topics |-> <<>>, metadata |-> [extraction_quality |-> "ok"]]

\* message.content of a completion, as the shape of its text: what it holds
\* (kind: the members of a JSON object, which value is; a JSON value that is
\* not an object; or no JSON at all), whether it starts with { and ends
\* with }, the markdown fence around it ("json" for one opened as a json
\* block, "plain" for one opened bare, "" for none), and whether it has a
\* comma before a closing bracket
JsonText(kind, braced, fence, trailing_comma, value) ==
    [kind |-> kind, braced |-> braced, fence |-> fence,
     trailing_comma |-> trailing_comma, value |-> value]

\* a JSON object, an empty one, text that is no JSON even after repair, and
\* JSON that is not an object
Contents ==
    {JsonText("object", TRUE, "", FALSE, Dataset(<<GoodEvent, WeakEvent>>, <<GoodSpeaker>>, <<>>)),
     JsonText("object", TRUE, "", FALSE, Dataset(<<>>, <<>>, <<>>)),
     JsonText("malformed", FALSE, "", FALSE, <<>>),
     JsonText("not_object", FALSE, "", FALSE, <<>>)}
Embeddings == {"vec1", "vec2"}

\* what extract_content builds from a response (lines 59-67)
CompletionResult(content) ==
    [extracted_data |-> content, model |-> "gpt-4", usage |-> [total_tokens |-> 150]]

LLMIdle == [pc |-> "idle", fn |-> "", attempt_number |-> 0, log |-> <<>>,
            result |-> None, error |-> ""]

\* the decorated function is entered: tenacity starts with attempt 1
LLMStarted(fn) == [LLMIdle EXCEPT !.pc = "attempt", !.fn = fn, !.attempt_number = 1]

\* the try/except of the method body: any exception of the provider call is
\* replaced by OpenAIServiceError
BodyRaises(providerError) == IF providerError = "" THEN "" ELSE "OpenAIServiceError"

\* a bug: OpenAIServiceError is retried as well
retry_if_exception_type_Any(exc) == exc # ""

retry_if_exception_type(exc) == exc \in TransientErrors

stop_after_attempt(attempt_number) == attempt_number >= MaxAttempts

\* tenacity after an attempt (reraise=True): return the result, re-raise the
\* exception, or sleep and try again
RetryDecision(raised, attempt_number) ==
    IF raised = "" THEN "return"
    ELSE IF ~retry_if_exception_type(raised) THEN "raise"
    ELSE IF stop_after_attempt(attempt_number) THEN "raise"
    ELSE "retry"

\* one invocation of the provider by call rec, ending with providerError
\* ("" for a response carrying value)
AttemptStep(rec, providerError, value) ==
    LET raised == BodyRaises(providerError)
        decision == RetryDecision(raised, rec.attempt_number)
        log1 == Append(rec.log, providerError)
    IN  CASE decision = "return" ->
               [rec EXCEPT !.pc = "returned", !.log = log1, !.result = Some(value)]
          [] decision = "raise" ->
               [rec EXCEPT !.pc = "raised", !.log = log1, !.error = raised]
          [] decision = "retry" ->
               [rec EXCEPT !.attempt_number = @ + 1, !.log = log1]

InitLLM ==
    /\ InitStore
    /\ lock = None
    /\ pc = <<>>
    /\ req = <<>>
    /\ llm = [t \in Tasks |-> LLMIdle]
    /\ ext = <<>>
    /\ batch = NoBatch
    /\ keycalls = NoKeyCalls

\* a caller calls extract_content ("complete") or generate_embedding ("embed")
LLMCall(t, fn) ==
    /\ llm[t].pc \in {"idle", "returned", "raised"}
    /\ llm' = [llm EXCEPT ![t] = LLMStarted(fn)]
    /\ UNCHANGED <<cacheVars, taskVars, ext, batch, keycalls>>

\* client.chat.completions.create answers call t
CompleteAttempt(t, providerError, content) ==
    /\ llm[t].pc = "attempt"
    /\ llm[t].fn = "extract_content"
    /\ llm' = [llm EXCEPT ![t] = AttemptStep(@, providerError, CompletionResult(content))]
    /\ UNCHANGED <<cacheVars, taskVars, ext, batch, keycalls>>

\* client.embeddings.create answers call t
EmbedAttempt(t, providerError, embedding) ==
    /\ llm[t].pc = "attempt"
    /\ llm[t].fn = "generate_embedding"
    /\ llm' = [llm EXCEPT ![t] = AttemptStep(@, providerError, embedding)]
    /\ UNCHANGED <<cacheVars, taskVars, ext, batch, keycalls>>

NextLLM ==
    \/ \E t \in Tasks, fn \in {"extract_content", "generate_embedding"} : LLMCall(t, fn)
    \/ \E t \in Tasks, c \in Contents : CompleteAttempt(t, "", c)
    \/ \E t \in Tasks, e \in TransientErrors \cup FatalErrors, c \in Contents :
          CompleteAttempt(t, e, c)
    \/ \E t \in Tasks, v \in Embeddings : EmbedAttempt(t, "", v)
    \/ \E t \in Tasks, e \in TransientErrors \cup FatalErrors, v \in Embeddings :
          EmbedAttempt(t, e, v)

SpecLLM == InitLLM /\ [][NextLLM]_vars

(***************************************************************************)
(* OpenAIService.batch_generate_embeddings: the texts are sent in chunks   *)
(* of batch_size, one provider call after the other; the method has no     *)
(* retry decorator.  The sleep between two chunks changes nothing here.    *)
(***************************************************************************)
\* the lists of texts and the chunk sizes of the calls
EmbedTexts == {<<>>, <<"a">>, <<"a", "b">>, <<"a", "b", "c">>}
ChunkSizes == {1, 2}

\* the embedding the provider computes for a text
EmbeddingOf(text) == <<"embedding", text>>

\* texts[i:i+batch_size], i counted from 0
Chunk(texts, i, batch_size) ==
    SubSeq(texts, i + 1, IF i + batch_size < Len(texts) THEN i + batch_size ELSE Len(texts))

\* the call at the top of its loop: it returns the embeddings when no chunk
\* is left
AtLoopTop(rec) ==
    IF rec.i < Len(rec.texts) THEN rec
    ELSE [rec EXCEPT !.pc = "returned", !.result = Some(rec.embeddings)]

\* the method is entered
EmbedBatchStarted(texts, batch_size) ==
    AtLoopTop([pc |-> "attempt", fn |-> "batch_generate_embeddings", attempt_number |-> 1,
               log |-> <<>>, result |-> None, error |-> "",
               texts |-> texts, batch_size |-> batch_size, i |-> 0, embeddings |-> <<>>])

\* a bug: a chunk that failed is passed over and the loop goes on
OnChunkError_Skip(rec, providerError) ==
    AtLoopTop([rec EXCEPT !.log = Append(@, providerError), !.i = @ + rec.batch_size])

\* the except branch of the loop body: the method raises OpenAIServiceError
OnChunkError(rec, providerError) ==
    [rec EXCEPT !.pc = "raised", !.log = Append(@, providerError),
                !.error = BodyRaises(providerError)]

\* one pass of the loop: client.embeddings.create on the chunk ends with
\* providerError, or ("") answers with one embedding for each text
ChunkStep(rec, providerError) ==
    LET chunk == Chunk(rec.texts, rec.i, rec.batch_size)
    IN  IF providerError # "" THEN OnChunkError(rec, providerError)
        ELSE AtLoopTop([rec EXCEPT !.log = Append(@, ""),
                                   !.embeddings = @ \o [j \in 1..Len(chunk) |->
                                                          EmbeddingOf(chunk[j])],
                                   !.i = @ + rec.batch_size])

EmbedBatchCall(t, texts, batch_size) ==
    /\ llm[t].pc \in {"idle", "returned", "raised"}
    /\ llm' = [llm EXCEPT ![t] = EmbedBatchStarted(texts, batch_size)]
    /\ UNCHANGED <<cacheVars, taskVars, ext, batch, keycalls>>

EmbedBatchChunk(t, providerError) ==
    /\ llm[t].pc = "attempt"
    /\ llm[t].fn = "batch_generate_embeddings"
    /\ llm' = [llm EXCEPT ![t] = ChunkStep(@, providerError)]
    /\ UNCHANGED <<cacheVars, taskVars, ext, batch, keycalls>>

NextEmbed ==
    \/ \E t \in Tasks, texts \in EmbedTexts, n \in ChunkSizes : EmbedBatchCall(t, texts, n)
    \/ \E t \in Tasks : EmbedBatchChunk(t, "")
    \/ \E t \in Tasks, e \in TransientErrors \cup FatalErrors : EmbedBatchChunk(t, e)

SpecEmbed == InitLLM /\ [][NextEmbed]_vars

(***************************************************************************)
(* ExtractionService.extract_content (extraction_service.py), over a       *)
(* CacheService with the MemoryCache backend and the OpenAIService above.  *)
(* The call suspends only while the provider call is in flight: the part   *)
(* up to the provider call and the part after it are one step each.        *)
(***************************************************************************)
ExtTasks == {"t1"}

\* An HTML document is the sequence of its nodes in document order: an
\* element with its attributes and its text, a piece of text (tag "#text"),
\* or a run of whitespace between nodes (tag "#ws", text its characters).
\* Texts and attribute values of the model hold no whitespace.
Element(tag, attrs, text) == [tag |-> tag, attrs |-> attrs, text |-> text]
Text(s) == Element("#text", <<>>, s)
Whitespace(s) == Element("#ws", <<>>, s)
IsWhitespace(node) == node.tag = "#ws"

\* a page with a JSON-LD script, a style sheet and an Open-Graph meta, the
\* same page as a later fetch serves it, and another page
DocA == << Element("meta", ("property" :> "og:title") @@ ("content" :> "c1"), ""),
           Element("script", ("type" :> "application/ld+json"), "ld1"),
           Whitespace(" "),
           Element("div", ("class" :> "event") @@ ("id" :> "i1"), "Alpha") >>
DocA1 == << Element("meta", ("property" :> "og:title") @@ ("content" :> "c2"), ""),
            Element("script", ("type" :> "application/ld+json"), "ld2"),
            Whitespace("\n  "),
            Element("div", ("class" :> "event") @@ ("id" :> "i2"), "Alpha") >>
DocB == << Element("div", ("class" :> "event"), "Beta") >>
Docs == {DocA, DocA1, DocB}
NoDoc == <<>>
Modes == {"full", "events_only"}
\* confidence thresholds, in percent (the default is 0.7)
Thresholds == {70}
\* provider errors met by extract_content: one transient, one not
ExtErrors == {"RateLimitError", "AuthenticationError"}

\* _normalize_for_cache, line 143: the elements removed with their content
VolatileTags == {"script", "style", "meta"}
\* line 149: the attributes deleted from every element
VolatileAttrs == {"data-timestamp", "data-time", "id"}

Decompose(doc, tags) == SelectSeq(doc, LAMBDA node : node.tag \notin tags)

\* an element keeps all its attributes
DropAttrs_Keep(node, names) == node

DropAttrs(node, names) ==
    [node EXCEPT !.attrs = [name \in (DOMAIN node.attrs) \ names |-> node.attrs[name]]]

\* ' '.join(str(soup).split()): a run of whitespace, however many nodes and
\* characters it spans, becomes one space, and none is left at either end
SplitJoin(doc) ==
    LET n == Len(doc)
        starts_word(i) == \/ ~IsWhitespace(doc[i])
                          \/ /\ i > 1
                             /\ ~IsWhitespace(doc[i - 1])
                             /\ \E j \in (i + 1)..n : ~IsWhitespace(doc[j])
        kept == SelectSeq([i \in 1..n |-> i], starts_word)
    IN  [k \in 1..Len(kept) |->
           IF IsWhitespace(doc[kept[k]]) THEN Whitespace(" ") ELSE doc[kept[k]]]

\* html.parser accepts every string, so the except branch (lines 157-161)
\* is not taken on the documents of the model
normalize_for_cache(html_content) ==
    LET soup == Decompose(html_content, VolatileTags)
        stripped == [i \in 1..Len(soup) |-> DropAttrs(soup[i], VolatileAttrs)]
    IN  SplitJoin(stripped)

\* hashlib.sha256(...).hexdigest(), taken as free of collisions on the
\* inputs of the model
content_hash(normalized_content) == [sha256 |-> normalized_content]

\* content_hash[:16]: the first digits of the digest, which has more
DigestPrefixLen == 16
HashPrefix(hash, n) == [sha256 |-> hash.sha256, digits |-> n]

\* a key that leaves the mode out
generate_cache_key_NoMode(html_content, extraction_type) ==
    [prefix |-> "extraction",
     mode |-> "",
     digest |-> HashPrefix(content_hash(normalize_for_cache(html_content)),
                           DigestPrefixLen)]

\* f"extraction:{extraction_type}:{content_hash[:16]}", as its three parts
generate_cache_key(html_content, extraction_type) ==
    [prefix |-> "extraction",
     mode |-> extraction_type,
     digest |-> HashPrefix(content_hash(normalize_for_cache(html_content)),
                           DigestPrefixLen)]

\* the cache key of a call of extract_content (line 137)
CallKey(e) == generate_cache_key(e.html, e.extraction_type)

\* HTMLProcessor.clean_html: script, style, nav, header and footer go with
\* their content; bleach strips every tag that is not allowed (its text
\* stays) and every attribute that is not allowed; whitespace is collapsed
CleanedTags == {"script", "style", "nav", "header", "footer"}
AllowedTags == {"h1", "h2", "h3", "h4", "h5", "h6", "p", "div", "span", "section",
                "article", "ul", "ol", "li", "strong", "em", "b", "i", "a", "img",
                "time", "address", "#text", "#ws"}
AllowedAttrs(tag) ==
    {"class", "id", "data-*"} \cup
    (CASE tag = "a" -> {"href", "title"}
       [] tag = "img" -> {"src", "alt"}
       [] tag = "time" -> {"datetime"}
       [] OTHER -> {})

clean_html(html_content) ==
    LET soup == Decompose(html_content, CleanedTags)
        bleached(node) ==
            IF node.tag \in AllowedTags
            THEN DropAttrs(node, (DOMAIN node.attrs) \ AllowedAttrs(node.tag))
            ELSE Text(node.text)
        clean == SelectSeq([i \in 1..Len(soup) |-> bleached(soup[i])],
                           LAMBDA node : node.tag # "#text" \/ node.text # "")
    IN  SplitJoin(clean)

\* json.loads of the text of a script followed by json.dumps(indent=2):
\* the texts that decode, each with the text its data is written back as
\* ("ld1c" is the data of "ld1" written compactly); every other text raises
\* JSONDecodeError
JsonLdDumps == ("ld1" :> "ld1") @@ ("ld1c" :> "ld1") @@ ("ld2" :> "ld2")

\* a bug: the text of every JSON-LD script goes into the hints as it is
JsonLdData_Verbatim(script) == <<script.text>>

\* lines 66-72: a script without text is passed over, and so is one whose
\* text does not decode
JsonLdData(script) ==
    IF script.text # "" /\ script.text \in DOMAIN JsonLdDumps
    THEN <<JsonLdDumps[script.text]>> ELSE <<>>

RECURSIVE Concat(_)
Concat(lists) == IF lists = <<>> THEN <<>> ELSE Head(lists) \o Concat(Tail(lists))

\* HTMLProcessor.extract_structured_data: the data of the JSON-LD scripts
\* and the Open-Graph metas (property starting with og:) that have a
\* content; a part that is empty is not in the dict (the pages of the model
\* have no microdata)
OpenGraphProperties == {"og:title", "og:description", "og:url"}
extract_structured_data(html_content) ==
    LET scripts == SelectSeq(html_content,
                       LAMBDA node : /\ node.tag = "script"
                                     /\ "type" \in DOMAIN node.attrs
                                     /\ node.attrs["type"] = "application/ld+json")
        json_ld_data == Concat([i \in 1..Len(scripts) |-> JsonLdData(scripts[i])])
        og_tags == SelectSeq(html_content,
                       LAMBDA node : /\ node.tag = "meta"
                                     /\ "property" \in DOMAIN node.attrs
                                     /\ node.attrs["property"] \in OpenGraphProperties)
        with_content == SelectSeq(og_tags,
                            LAMBDA tag : "content" \in DOMAIN tag.attrs
                                         /\ tag.attrs["content"] # "")
        open_graph == [i \in 1..Len(with_content) |->
                          [property |-> with_content[i].attrs["property"],
                           content |-> with_content[i].attrs["content"]]]
    IN  (IF json_ld_data # <<>> THEN [json_ld |-> json_ld_data] ELSE <<>>)
        @@ (IF og_tags # <<>> THEN [open_graph |-> open_graph] ELSE <<>>)

\* `if len(cleaned_html) > 50000`
MaxContentLen == 50000

\* the text put after a content that was cut, character by character
TruncationMarker ==
    <<"\n", "\n", "[", "C", "o", "n", "t", "e", "n", "t", " ", "t", "r", "u", "n", "c",
      "a", "t", "e", "d", ".", ".", ".", "]">>

\* the number of characters a node is written with: the filler texts have
\* the lengths their names say, every other node of the model's pages is
\* taken to be 10 characters long
FillerChars ==
    ("fill-30" :> MaxContentLen - 30) @@ ("fill-10" :> MaxContentLen - 10)
    @@ ("fill-9" :> MaxContentLen - 9) @@ ("fill+1" :> MaxContentLen + 1)
NodeChars(node) ==
    IF node.text \in DOMAIN FillerChars THEN FillerChars[node.text] ELSE 10

RECURSIVE SumChars(_)
SumChars(nodes) ==
    IF nodes = <<>> THEN 0 ELSE NodeChars(Head(nodes)) + SumChars(Tail(nodes))

\* format_structured_data_hints: a first and a last line, a title line for
\* each part and one entry for each datum, each line taken to be 10
\* characters long, and the blank line that separates the hints from the
\* cleaned HTML
HintChars(structured_data) ==
    IF DOMAIN structured_data = {} THEN 0
    ELSE 10 * (3 + (IF "json_ld" \in DOMAIN structured_data
                    THEN 1 + Len(structured_data.json_ld) ELSE 0)
                 + (IF "open_graph" \in DOMAIN structured_data
                    THEN 1 + Len(structured_data.open_graph) ELSE 0))

\* cleaned_html[:50000] of a content of the given length
CutAt(length) == IF length > MaxContentLen THEN MaxContentLen ELSE length

\* the nodes of which the first n characters are made: the nodes that end
\* within them, then a piece of the next node if the cut falls inside it
Cut(nodes, n) ==
    LET whole == {k \in 0..Len(nodes) : SumChars(SubSeq(nodes, 1, k)) <= n}
        last_whole == CHOOSE k \in whole : \A j \in whole : j <= k
    IN  SubSeq(nodes, 1, last_whole)
        \o (IF last_whole < Len(nodes) /\ SumChars(SubSeq(nodes, 1, last_whole)) < n
            THEN <<Element("#cut", <<>>, "")>> ELSE <<>>)

\* ExtractionService.preprocess_html, the provider input: the structured-
\* data hints (when there are any) above the cleaned HTML, cut at
\* MaxContentLen characters with the marker after it when it is longer;
\* hints are never longer than that on the pages of the model
preprocess_html(html_content) ==
    LET cleaned_html == clean_html(html_content)
        structured_data == extract_structured_data(html_content)
        length == HintChars(structured_data) + SumChars(cleaned_html)
        kept == CutAt(length)
    IN  [hints |-> structured_data,
         cleaned |-> Cut(cleaned_html, kept - HintChars(structured_data)),
         chars |-> IF length > MaxContentLen
                   THEN kept + Len(TruncationMarker) ELSE length,
         truncated |-> length > MaxContentLen]

(***************************************************************************)
(* ConfidenceScorer (validation_service.py).  An entity is a dict from     *)
(* field names to strings.  A string is modelled by what the scorer reads  *)
(* of it: the number of characters left by strip(), the number of          *)
(* whitespace characters strip() removes, and its kind: one that holds a   *)
(* title keyword, a name of two words or more, a date in %Y-%m-%d form, a  *)
(* URL the url_pattern matches, a sponsor / host / partner / venue word,   *)
(* or none of these ("plain").                                             *)
(* A score is kept exactly, as a whole number of units of 1/210000 (the    *)
(* points are multiples of 0.01 and max_score is 100 or 105); Python       *)
(* computes the same quotient in floating point.                           *)
(***************************************************************************)
\* dict.get(field) is truthy: the field is there and is not the empty string
Has(entity, field) ==
    /\ field \in DOMAIN entity
    /\ entity[field].chars + entity[field].padding > 0

\* len(entity[field].strip()) of a field that is there
StripLen(entity, field) == entity[field].chars

IsKind(entity, field, kind) == entity[field].kind = kind

\* score / max_score, capped at 1.0, in units: points are in hundredths
Quotient(points, max_score) ==
    LET capped == IF points > max_score * 100 THEN max_score * 100 ELSE points
    IN  capped * (2100 \div max_score)

\* the score 1.0 and n tenths, in units
One == Quotient(10000, 100)
Tenths(n) == n * (One \div 10)
Hundredths(n) == n * (One \div 100)

\* a bug: max_score counts the weights of the fields that are present only
EventMaxScore_PresentFieldsOnly(event) ==
    30 + (IF Has(event, "date") THEN 25 ELSE 0)
       + (IF Has(event, "location") THEN 20 ELSE 0)
       + (IF Has(event, "description") THEN 15 ELSE 0) + 10

\* score_event, max_score: the weights 30 + 25 + 20 + 15 + 10, and 5 more
\* when the title bonus is given
EventMaxScore(event) ==
    IF Has(event, "title") /\ StripLen(event, "title") > 5
       /\ IsKind(event, "title", "keyword")
    THEN 105 ELSE 100

EventBonusFields == {"time", "event_type", "registration_url", "price"}

\* a bug: the location earns nothing
EventPoints_NoLocation(event) ==
    (IF Has(event, "title") /\ StripLen(event, "title") > 5 THEN 3000 ELSE 0)
    + (IF Has(event, "date") /\ IsKind(event, "date", "date") THEN 2500 ELSE 0)
    + (IF Has(event, "description") /\ StripLen(event, "description") > 50
       THEN 1500 ELSE 0)

\* score_event, score: in hundredths of a point
EventPoints(event) ==
    LET title == IF Has(event, "title") /\ StripLen(event, "title") > 5
                 THEN IF IsKind(event, "title", "keyword") THEN 3500 ELSE 3000
                 ELSE 0
        date == IF Has(event, "date")
                THEN IF IsKind(event, "date", "date") THEN 2500 ELSE 1000
                ELSE 0
        location == IF Has(event, "location") /\ StripLen(event, "location") > 3
                    THEN 2000 ELSE 0
        description == IF ~Has(event, "description") THEN 0
                       ELSE IF StripLen(event, "description") > 50 THEN 1500
                       ELSE IF StripLen(event, "description") > 10 THEN 800
                       ELSE 0
        present_fields == Cardinality({f \in EventBonusFields : Has(event, f)})
    IN  title + date + location + description + present_fields * 250

\* a bug: the title bonus is added to the score only, and nothing caps it
score_event_Unbounded(event) == EventPoints(event) * 21

score_event(event) == Quotient(EventPoints(event), EventMaxScore(event))

SpeakerLinks == {"linkedin_url", "twitter_url", "website_url"}

score_speaker(speaker) ==
    LET full == Has(speaker, "name") /\ StripLen(speaker, "name") > 3
                /\ IsKind(speaker, "name", "full_name")
        name == IF Has(speaker, "name") /\ StripLen(speaker, "name") > 3
                THEN IF full THEN 4000 ELSE 3500
                ELSE 0
        title == IF Has(speaker, "title") /\ StripLen(speaker, "title") > 3
                 THEN 2500 ELSE 0
        company == IF Has(speaker, "company") /\ StripLen(speaker, "company") > 2
                   THEN 2000 ELSE 0
        bio == IF ~Has(speaker, "bio") THEN 0
               ELSE IF StripLen(speaker, "bio") > 20 THEN 1000
               ELSE IF StripLen(speaker, "bio") > 5 THEN 500
               ELSE 0
        social_score == 333 * Cardinality({f \in SpeakerLinks :
                                 Has(speaker, f) /\ IsKind(speaker, f, "url")})
        social == IF social_score > 1000 THEN 1000 ELSE social_score
    IN  Quotient(name + title + company + bio + social, IF full THEN 105 ELSE 100)

score_company(company) ==
    LET name == IF Has(company, "name") /\ StripLen(company, "name") > 2
                THEN 4000 ELSE 0
        website == IF Has(company, "website_url") /\ IsKind(company, "website_url", "url")
                   THEN 2500 ELSE 0
        desc_score == (IF Has(company, "description") THEN 1000 ELSE 0)
                      + (IF Has(company, "industry") THEN 1000 ELSE 0)
        relationship == IF Has(company, "relationship_type")
                           /\ IsKind(company, "relationship_type", "relationship")
                        THEN 1500 ELSE 0
    IN  Quotient(name + website + desc_score + relationship, 100)

\* the empty dataset; its metadata is {} or flags the extraction quality
EmptyData(quality) ==
    [events |-> <<>>, speakers |-> <<>>, companies |-> <<>>, topics |-> <<>>,
     metadata |-> IF quality = "" THEN <<>> ELSE [extraction_quality |-> quality]]

\* json.loads: the text decodes when it is bare JSON, an object in its
\* braces or another value without braces around it
json_loads(text) ==
    IF text.fence = "" /\ ~text.trailing_comma /\ text.kind = "object" /\ text.braced
    THEN [raised |-> "", is_dict |-> TRUE, value |-> text.value]
    ELSE IF text.fence = "" /\ ~text.trailing_comma /\ text.kind = "not_object"
            /\ ~text.braced
    THEN [raised |-> "", is_dict |-> FALSE, value |-> <<>>]
    ELSE [raised |-> "JSONDecodeError", is_dict |-> FALSE, value |-> <<>>]

\* fix_json_response: the opening of a json fence and the closing of any
\* fence are removed (the opening of a plain fence stays), commas before }
\* and ] are removed, and { and } are put around text that lacks them
fix_json_response(content) ==
    [content EXCEPT !.fence = IF @ = "json" THEN "" ELSE @,
                    !.trailing_comma = FALSE,
                    !.braced = TRUE]

\* a bug: the text that cannot be decoded makes the parse raise
ParseFallback_Raises(response_content) ==
    [raised |-> "JSONDecodeError", data |-> EmptyData("")]

\* the structure returned when the repaired text does not decode either
\* (lines 268-275)
ParseFallback(response_content) ==
    [raised |-> "", data |-> EmptyData("failed")]

RequiredKeys == {"events", "speakers", "companies", "topics", "metadata"}

\* a bug: the decoded object is returned as it is
FillRequiredKeys_Skip(data) == data

\* `if key not in data: data[key] = [] if key != 'metadata' else {}` (the
\* empty list and the empty dict are both <<>>)
FillRequiredKeys(data) ==
    [key \in DOMAIN data \cup RequiredKeys |->
        IF key \in DOMAIN data THEN data[key] ELSE <<>>]

\* json.loads, the repair pass and the fallback structure; required keys are
\* assigned on the decoded value, which raises TypeError unless it is a dict
parse_openai_response(response_content) ==
    LET direct == json_loads(response_content)
        repaired == json_loads(fix_json_response(response_content))
    IN  IF direct.raised = ""
        THEN IF direct.is_dict
             THEN [raised |-> "", data |-> FillRequiredKeys(direct.value)]
             ELSE [raised |-> "TypeError", data |-> EmptyData("")]
        ELSE IF repaired.raised = ""
        THEN [raised |-> "", data |-> repaired.value]
        ELSE ParseFallback(response_content)

\* dict.get(key, default); the empty dict {} is the empty function
DictGet(d, k, default) == IF k \in DOMAIN d THEN d[k] ELSE default

\* a confidence threshold, given in percent, in units
ThresholdUnits(confidence_threshold) == Hundredths(confidence_threshold)

\* a bug: an entity scoring exactly the threshold is dropped
Passes_Strictly(confidence, confidence_threshold) ==
    confidence > ThresholdUnits(confidence_threshold)

\* `if confidence >= confidence_threshold:`
Passes(confidence, confidence_threshold) ==
    confidence >= ThresholdUnits(confidence_threshold)

\* a bug: a confidence_score the entity came with is kept
WithConfidence_KeepOwn(entity, confidence) ==
    entity @@ ("confidence_score" :> confidence)

\* `entity['confidence_score'] = confidence`
WithConfidence(entity, confidence) ==
    ("confidence_score" :> confidence) @@ entity

\* the three entity lists and the scorer of each
EntityKinds == {"events", "speakers", "companies"}

ScoreOfKind(kind, entity) ==
    CASE kind = "events" -> score_event(entity)
      [] kind = "speakers" -> score_speaker(entity)
      [] kind = "companies" -> score_company(entity)

\* the loop over one entity list: the entities that pass, in their order,
\* each with its score written into it
Retained(extracted_data, kind, confidence_threshold) ==
    LET passing == SelectSeq(DictGet(extracted_data, kind, <<>>),
                             LAMBDA entity : Passes(ScoreOfKind(kind, entity),
                                                    confidence_threshold))
    IN  [i \in 1..Len(passing) |->
            WithConfidence(passing[i], ScoreOfKind(kind, passing[i]))]

validate_and_filter(extracted_data, confidence_threshold) ==
    [events |-> Retained(extracted_data, "events", confidence_threshold),
     speakers |-> Retained(extracted_data, "speakers", confidence_threshold),
     companies |-> Retained(extracted_data, "companies", confidence_threshold),
     topics |-> DictGet(extracted_data, "topics", <<>>),
     metadata |-> DictGet(extracted_data, "metadata", <<>>)]

\* the entities of Contents that pass the default threshold, as returned
KeptGoodEvent == WithConfidence(GoodEvent, score_event(GoodEvent))
KeptGoodSpeaker == WithConfidence(GoodSpeaker, score_speaker(GoodSpeaker))

RECURSIVE SeqSum(_)
SeqSum(q) == IF q = <<>> THEN 0 ELSE Head(q) + SeqSum(Tail(q))

\* sum(scores) / len(scores), kept as the pair (sum, n); 0.0 when n = 0
Mean(scores) == [sum |-> SeqSum(scores), n |-> Len(scores)]

Map(q, f(_)) == [i \in 1..Len(q) |-> f(q[i])]

\* a bug: only the events count
calculate_overall_confidence_EventsOnly(extracted_data) ==
    Mean(Map(DictGet(extracted_data, "events", <<>>), score_event))

\* calculate_overall_confidence: every entity is scored again
calculate_overall_confidence(extracted_data) ==
    Mean(Map(DictGet(extracted_data, "events", <<>>), score_event)
         \o Map(DictGet(extracted_data, "speakers", <<>>), score_speaker)
         \o Map(DictGet(extracted_data, "companies", <<>>), score_company))

\* _calculate_avg_confidence: the mean of the confidence_score fields
calculate_avg_confidence(entities) ==
    Mean(Map(entities, LAMBDA entity : DictGet(entity, "confidence_score", 0)))

ConfidenceScores(filtered_data) ==
    [overall |-> calculate_overall_confidence(filtered_data),
     events_avg |-> calculate_avg_confidence(DictGet(filtered_data, "events", <<>>)),
     speakers_avg |-> calculate_avg_confidence(DictGet(filtered_data, "speakers", <<>>)),
     companies_avg |-> calculate_avg_confidence(DictGet(filtered_data, "companies", <<>>))]

\* a bug: the cache form leaves out the usage stats
to_cache_format_NoUsage(result) ==
    [extracted_data |-> result.extracted_data,
     confidence_scores |-> result.confidence_scores,
     processing_time |-> result.processing_time,
     model_used |-> result.model_used]

to_cache_format(result) ==
    [extracted_data |-> result.extracted_data,
     confidence_scores |-> result.confidence_scores,
     processing_time |-> result.processing_time,
     model_used |-> result.model_used,
     usage_stats |-> result.usage_stats]

from_cache(cached_data) ==
    [extracted_data |-> DictGet(cached_data, "extracted_data", <<>>),
     confidence_scores |-> DictGet(cached_data, "confidence_scores", <<>>),
     processing_time |-> DictGet(cached_data, "processing_time", 0),
     cache_hit |-> TRUE,
     model_used |-> DictGet(cached_data, "model_used", "cached"),
     usage_stats |-> DictGet(cached_data, "usage_stats", <<>>)]

ExtIdle == [pc |-> "idle", html |-> NoDoc, extraction_type |-> "", use_cache |-> FALSE,
            threshold |-> 0, start_time |-> 0, steps |-> <<>>,
            result |-> None, error |-> ""]

\* a bug: the cached result is ignored
IsCacheHit_Never(use_cache, cached_result) == FALSE

\* `if use_cache: cached_result = await cache.get(key); if cached_result:`
\* (every value the service stores is a non-empty dict, hence truthy)
IsCacheHit(use_cache, cached_result) == use_cache /\ cached_result # None

\* a bug: the outcome of the parse is not looked at
ParseSucceeded_Always(parsed) == TRUE

\* the try/except around parse_openai_response (lines 165-170)
ParseSucceeded(parsed) == parsed.raised = ""

\* a bug: no result is ever written
ShouldCache_Never(use_cache, result) == FALSE

\* a bug: the result is written whatever use_cache says
ShouldCache_Always(use_cache, result) == TRUE

\* `if use_cache and result.extracted_data:` (the filtered dict always has
\* its five keys, hence is truthy)
ShouldCache(use_cache, result) == use_cache

\* a bug: a provider failure is swallowed and an empty result returned
OnProviderError_Swallow(e, t) ==
    [e EXCEPT !.pc = "done", !.steps = @ \o <<"done">>,
              !.result = Some([extracted_data |-> EmptyData("failed"),
                               confidence_scores |-> ConfidenceScores(EmptyData("failed")),
                               processing_time |-> t - e.start_time,
                               cache_hit |-> FALSE,
                               model_used |-> "unknown",
                               usage_stats |-> [total_tokens |-> 0]])]

\* `except Exception as e: raise ContentExtractionError(...)` around the call
OnProviderError(e, t) ==
    [e EXCEPT !.pc = "failed", !.steps = @ \o <<"failed">>,
              !.error = "ContentExtractionError"]

\* extract_content from its first line to the provider call (lines 133-160),
\* on the store (c, ao) of the cache service it was constructed with; fault
\* is what happens to the backend call of the cache lookup
ExtractBeginOn(t, c, ao, html_content, extraction_type, use_cache, confidence_threshold, fault) ==
    LET cache_key == generate_cache_key(html_content, extraction_type)
        got == IF use_cache
               THEN CacheService_get_with(c, ao, now, cache_key, fault)
               ELSE [cache |-> c, access_order |-> ao, ret |-> None, exc |-> ""]
        looked == IF use_cache THEN <<"cache_lookup">> ELSE <<>>
        e == [ExtIdle EXCEPT !.html = html_content,
                             !.extraction_type = extraction_type,
                             !.use_cache = use_cache,
                             !.threshold = confidence_threshold,
                             !.start_time = now]
    IN  /\ ext[t].pc \in {"idle", "done", "failed"}
        /\ cache' = got.cache
        /\ access_order' = got.access_order
        /\ IF got.exc # ""
           THEN /\ ext' = [ext EXCEPT ![t] =
                      [e EXCEPT !.pc = "failed", !.steps = looked \o <<"failed">>,
                                !.error = got.exc]]
                /\ llm' = [llm EXCEPT ![t] = LLMIdle]
           ELSE IF IsCacheHit(use_cache, got.ret)
           THEN /\ ext' = [ext EXCEPT ![t] =
                      [e EXCEPT !.pc = "done", !.steps = looked \o <<"done">>,
                                !.result = Some(from_cache(got.ret[1]))]]
                /\ llm' = [llm EXCEPT ![t] = LLMIdle]
           ELSE /\ ext' = [ext EXCEPT ![t] =
                      [e EXCEPT !.pc = "awaiting",
                                !.steps = looked \o <<"preprocess", "invoke">>]]
                /\ llm' = [llm EXCEPT ![t] = LLMStarted("extract_content")]
        /\ UNCHANGED <<max_size, now, last, lastAccess, taskVars>>

ExtractBeginStep(t, html_content, extraction_type, use_cache, confidence_threshold, fault) ==
    ExtractBeginOn(t, cache, access_order, html_content, extraction_type, use_cache,
                   confidence_threshold, fault)

ExtractBeginWith(t, html_content, extraction_type, use_cache, confidence_threshold, fault) ==
    /\ ExtractBeginStep(t, html_content, extraction_type, use_cache, confidence_threshold, fault)
    /\ UNCHANGED <<batch, keycalls>>

ExtractBegin(t, html_content, extraction_type, use_cache, confidence_threshold) ==
    ExtractBeginWith(t, html_content, extraction_type, use_cache, confidence_threshold, "")

\* the provider answers the call made by extract_content
ExtractReplyStep(t, providerError, content) ==
    /\ ext[t].pc = "awaiting"
    /\ llm[t].pc = "attempt"
    /\ llm' = [llm EXCEPT ![t] = AttemptStep(@, providerError, CompletionResult(content))]
    /\ UNCHANGED <<cacheVars, taskVars, ext>>

ExtractProviderReply(t, providerError, content) ==
    /\ ExtractReplyStep(t, providerError, content)
    /\ UNCHANGED <<batch, keycalls>>

\* extract_content from the return of the provider call to its end
\* (lines 161-201): e is the call, l the finished call of the LLM client,
\* fault what happens to the backend call of the cache write
AfterProviderWith(e, l, c, ao, cap, t, fault) ==
    IF l.pc = "raised"
    THEN [ext |-> OnProviderError(e, t), cache |-> c, access_order |-> ao]
    ELSE LET openai_response == l.result[1]
             parsed == parse_openai_response(openai_response.extracted_data)
             filtered_data == validate_and_filter(parsed.data, e.threshold)
             result == [extracted_data |-> filtered_data,
                        confidence_scores |-> ConfidenceScores(filtered_data),
                        processing_time |-> t - e.start_time,
                        cache_hit |-> FALSE,
                        model_used |-> openai_response.model,
                        usage_stats |-> openai_response.usage]
             cache_key == generate_cache_key(e.html, e.extraction_type)
             written == CacheService_set_with(c, ao, cap, t, cache_key,
                                              to_cache_format(result), None, fault)
         IN  IF ~ParseSucceeded(parsed)
             THEN [ext |-> [e EXCEPT !.pc = "failed",
                                     !.steps = @ \o <<"parse", "failed">>,
                                     !.error = "ContentExtractionError"],
                   cache |-> c, access_order |-> ao]
             ELSE IF ShouldCache(e.use_cache, result) /\ written.exc # ""
             THEN [ext |-> [e EXCEPT !.pc = "failed",
                                     !.steps = @ \o <<"parse", "filter", "cache_write", "failed">>,
                                     !.error = written.exc],
                   cache |-> written.cache, access_order |-> written.access_order]
             ELSE IF ShouldCache(e.use_cache, result)
             THEN [ext |-> [e EXCEPT !.pc = "done",
                                     !.steps = @ \o <<"parse", "filter", "cache_write", "done">>,
                                     !.result = Some(result)],
                   cache |-> written.cache, access_order |-> written.access_order]
             ELSE [ext |-> [e EXCEPT !.pc = "done",
                                     !.steps = @ \o <<"parse", "filter", "done">>,
                                     !.result = Some(result)],
                   cache |-> c, access_order |-> ao]

AfterProvider(e, l, c, ao, cap, t) == AfterProviderWith(e, l, c, ao, cap, t, "")

ExtractFinishStep(t, fault) ==
    /\ ext[t].pc = "awaiting"
    /\ llm[t].pc \in {"returned", "raised"}
    /\ LET r == AfterProviderWith(ext[t], llm[t], cache, access_order, max_size, now, fault)
       IN  /\ ext' = [ext EXCEPT ![t] = r.ext]
           /\ cache' = r.cache
           /\ access_order' = r.access_order
    /\ UNCHANGED <<max_size, now, last, lastAccess, taskVars, llm>>

ExtractFinishWith(t, fault) ==
    /\ ExtractFinishStep(t, fault)
    /\ UNCHANGED <<batch, keycalls>>

ExtractFinish(t) == ExtractFinishWith(t, "")

\* more than the service's ttl passes
Elapse ==
    /\ now < MaxTime * (CacheService_ttl + 1)
    /\ now' = now + CacheService_ttl + 1
    /\ UNCHANGED <<cache, access_order, max_size, last, lastAccess, taskVars, extVars>>

InitExtract ==
    /\ InitStore
    /\ lock = None
    /\ pc = <<>>
    /\ req = <<>>
    /\ llm = [t \in ExtTasks |-> LLMIdle]
    /\ ext = [t \in ExtTasks |-> ExtIdle]
    /\ batch = NoBatch
    /\ keycalls = NoKeyCalls

\* the calls made: a page and a later fetch of it in one mode, another page
\* in both modes
ExtractCalls ==
    {[html_content |-> DocA, extraction_type |-> "full"],
     [html_content |-> DocA1, extraction_type |-> "full"],
     [html_content |-> DocB, extraction_type |-> "full"],
     [html_content |-> DocB, extraction_type |-> "events_only"]}

NextExtract ==
    \/ \E t \in ExtTasks, call \in ExtractCalls, u \in BOOLEAN, th \in Thresholds :
          ExtractBegin(t, call.html_content, call.extraction_type, u, th)
    \/ \E t \in ExtTasks, c \in Contents : ExtractProviderReply(t, "", c)
    \/ \E t \in ExtTasks, e \in ExtErrors, c \in Contents :
          ExtractProviderReply(t, e, c)
    \/ \E t \in ExtTasks : ExtractFinish(t)
    \/ Elapse

SpecExtract == InitExtract /\ [][NextExtract]_vars

(***************************************************************************)
(* extract_content and direct calls of the cache service, over a backend   *)
(* whose calls may not go through.  The clock does not move here.          *)
(***************************************************************************)
FaultDocs == {DocA, DocB}
FaultKeys == {generate_cache_key(h, "full") : h \in FaultDocs}

\* the cache form of the result extract_content builds from a provider answer
CacheFormOf(content) ==
    LET data == validate_and_filter(parse_openai_response(content).data, 70)
    IN  [extracted_data |-> data,
         confidence_scores |-> ConfidenceScores(data),
         processing_time |-> 0,
         model_used |-> CompletionResult(content).model,
         usage_stats |-> CompletionResult(content).usage]

FaultValues == {CacheFormOf(c) : c \in {d \in Contents : d.kind = "object" /\ d.value.events # <<>>}}

FaultyServiceGet(key, fault) ==
    LET r == CacheService_get_with(cache, access_order, now, key, fault)
    IN  /\ cache' = r.cache
        /\ access_order' = r.access_order
        /\ last' = [NoCall EXCEPT !.op = "get", !.ret = r.ret, !.exc = r.exc]
        /\ UNCHANGED <<max_size, now, lastAccess, taskVars, extVars>>

FaultyServiceSet(key, value, fault) ==
    LET r == CacheService_set_with(cache, access_order, max_size, now, key, value, None, fault)
    IN  /\ cache' = r.cache
        /\ access_order' = r.access_order
        /\ last' = [NoCall EXCEPT !.op = "set", !.ok = r.ok, !.exc = r.exc]
        /\ UNCHANGED <<max_size, now, lastAccess, taskVars, extVars>>

FaultyServiceDelete(key, fault) ==
    LET r == CacheService_delete_with(cache, access_order, key, fault)
    IN  /\ cache' = r.cache
        /\ access_order' = r.access_order
        /\ last' = [NoCall EXCEPT !.op = "delete", !.ok = r.ok, !.exc = r.exc]
        /\ UNCHANGED <<max_size, now, lastAccess, taskVars, extVars>>

NextFault ==
    \/ \E t \in ExtTasks, h \in FaultDocs, u \in BOOLEAN, th \in Thresholds,
          f \in Faults \cup {""} : ExtractBeginWith(t, h, "full", u, th, f)
    \/ \E t \in ExtTasks, c \in Contents : ExtractProviderReply(t, "", c)
    \/ \E t \in ExtTasks, e \in ExtErrors, c \in Contents : ExtractProviderReply(t, e, c)
    \/ \E t \in ExtTasks, f \in Faults \cup {""} : ExtractFinishWith(t, f)
    \/ \E k \in FaultKeys, f \in Faults \cup {""} : FaultyServiceGet(k, f)
    \/ \E k \in FaultKeys, v \in FaultValues, f \in Faults \cup {""} : FaultyServiceSet(k, v, f)
    \/ \E k \in FaultKeys, f \in Faults \cup {""} : FaultyServiceDelete(k, f)

SpecFault == InitExtract /\ [][NextFault]_vars

(***************************************************************************)
(* ExtractionService.extract_batch: one extract_content coroutine per      *)
(* request, run together by asyncio.gather(..., return_exceptions=True).   *)
(* Item i of the batch is task i; ext and llm are indexed by 1..N here.    *)
(* The event loop starts the coroutines in the order of the list; each     *)
(* runs up to its provider call, so every item has started before the      *)
(* first provider answer is handled.  Answers arrive in any order.         *)
(***************************************************************************)
BatchSizes == {2, 3}
\* the positions of a batch
BatchItems == 1..3

BatchRequest(html, url) ==
    [html_content |-> html, url |-> url, extraction_type |-> "full",
     use_cache |-> TRUE, confidence_threshold |-> 70]

BatchRequests ==
    {BatchRequest(DocA, "u1"),
     BatchRequest(DocB, "u2"),
     BatchRequest(DocA1, "u3")}

Batches == UNION {[1..n -> BatchRequests] : n \in BatchSizes}

\* what the provider answers to the items of a batch
BatchContents == {c \in Contents : c.kind # "malformed"}
BatchErrors == {"RateLimitError"}

Settled(e) == e.pc \in {"done", "failed"}

\* `await asyncio.gather(*tasks, return_exceptions=True)` returns when every
\* task has returned or raised
GatherReady(exts) == \A j \in DOMAIN exts : Settled(exts[j])

\* a bug: the outcomes are listed in the order in which the items completed
GatherOrder_Completion(n, completed) == completed

\* gather lists the outcomes in the order of its arguments
GatherOrder(n, completed) == [j \in 1..n |-> j]

\* a bug: the first failure of an item fails the whole batch (gather
\* without return_exceptions)
GatherOutcome_Raises(exts) ==
    IF \E j \in DOMAIN exts : exts[j].pc = "failed" THEN "raised" ELSE "done"

\* with return_exceptions=True an exception of an item is an outcome like
\* any other, and extract_batch returns its list
GatherOutcome(exts) == "done"

\* the record extract_batch builds for one outcome (lines 335-348)
BatchRecord(request, e) ==
    IF e.pc = "failed"
    THEN [success |-> FALSE, error |-> e.error, url |-> request.url]
    ELSE [success |-> TRUE,
          extraction_data |-> e.result[1].extracted_data,
          confidence_scores |-> e.result[1].confidence_scores,
          processing_time_ms |-> e.result[1].processing_time * 1000,
          cache_hit |-> e.result[1].cache_hit,
          url |-> request.url]

\* history: the order in which the items completed
Completed(b, i, e) == IF Settled(e) THEN [b EXCEPT !.completed = Append(@, i)] ELSE b

\* extract_batch is called: the coroutines are created, none has run yet
BatchStart(requests) ==
    /\ batch.pc \in {"idle", "done"}
    /\ batch' = [pc |-> "gathering", requests |-> requests, results |-> <<>>,
                 completed |-> <<>>]
    /\ ext' = [j \in 1..Len(requests) |-> ExtIdle]
    /\ llm' = [j \in 1..Len(requests) |-> LLMIdle]
    /\ UNCHANGED <<cacheVars, taskVars, keycalls>>

\* item i runs from its start to its provider call, or to its end on a hit
BatchItemBegin(i) ==
    /\ batch.pc = "gathering"
    /\ i \in 1..Len(batch.requests)
    /\ ext[i].pc = "idle"
    /\ \A j \in 1..(i - 1) : ext[j].pc # "idle"
    /\ ExtractBeginStep(i, batch.requests[i].html_content,
                        batch.requests[i].extraction_type,
                        batch.requests[i].use_cache,
                        batch.requests[i].confidence_threshold, "")
    /\ batch' = Completed(batch, i, ext'[i])
    /\ UNCHANGED keycalls

\* the provider answers item i
BatchItemReply(i, providerError, content) ==
    /\ batch.pc = "gathering"
    /\ i \in 1..Len(batch.requests)
    /\ ExtractReplyStep(i, providerError, content)
    /\ UNCHANGED <<batch, keycalls>>

\* item i runs from the provider's answer to its end
BatchItemFinish(i) ==
    /\ batch.pc = "gathering"
    /\ i \in 1..Len(batch.requests)
    /\ \A j \in 1..Len(batch.requests) : ext[j].pc # "idle"
    /\ ExtractFinishStep(i, "")
    /\ batch' = Completed(batch, i, ext'[i])
    /\ UNCHANGED keycalls

\* gather returns and extract_batch builds its list (lines 332-350)
BatchReturn ==
    /\ batch.pc = "gathering"
    /\ GatherReady(ext)
    /\ LET n == Len(batch.requests)
           order == GatherOrder(n, batch.completed)
           completed_tasks == [j \in 1..Len(order) |-> ext[order[j]]]
       IN  batch' = IF GatherOutcome(ext) = "done"
                    THEN [batch EXCEPT
                            !.pc = "done",
                            !.results = [j \in 1..Len(completed_tasks) |->
                                           BatchRecord(batch.requests[j], completed_tasks[j])]]
                    ELSE [batch EXCEPT !.pc = "raised"]
    /\ UNCHANGED <<cacheVars, taskVars, llm, ext, keycalls>>

InitBatch ==
    /\ InitStore
    /\ lock = None
    /\ pc = <<>>
    /\ req = <<>>
    /\ llm = <<>>
    /\ ext = <<>>
    /\ batch = NoBatch
    /\ keycalls = NoKeyCalls

NextBatch ==
    \/ \E requests \in Batches : BatchStart(requests)
    \/ \E i \in BatchItems : BatchItemBegin(i)
    \/ \E i \in BatchItems, c \in BatchContents : BatchItemReply(i, "", c)
    \/ \E i \in BatchItems, e \in BatchErrors, c \in BatchContents : BatchItemReply(i, e, c)
    \/ \E i \in BatchItems : BatchItemFinish(i)
    \/ BatchReturn

SpecBatch == InitBatch /\ [][NextBatch]_vars

(***************************************************************************)
(* The application (api/dependencies.py, api/v1/endpoints/extraction.py):  *)
(* POST /extract resolves Depends(get_extraction_service) for every        *)
(* request and then awaits extract_content on the service it was given.    *)
(* One request is served at a time here; cache and access_order are the    *)
(* store of the CacheService built for the latest request.                 *)
(***************************************************************************)
RecursionLimit == 3

\* core/config.py get_settings: the settings object, built once
config_get_settings == [CACHE_BACKEND |-> "memory", CACHE_TTL |-> CacheService_ttl]

\* api/dependencies.py get_settings: the name is bound to the lru_cache
\* wrapper of this very function, so the call in its body calls itself
RECURSIVE dependencies_get_settings(_)
dependencies_get_settings(depth) ==
    IF depth >= RecursionLimit
    THEN [exc |-> "RecursionError", settings |-> None]
    ELSE dependencies_get_settings(depth + 1)

\* how the settings reach the provider functions: through Depends, as for
\* every HTTP request, or passed in by the caller, as main.py's lifespan does
SettingsSources == {"Depends", "argument"}

ResolveSettings(source) ==
    IF source = "Depends"
    THEN dependencies_get_settings(0)
    ELSE [exc |-> "", settings |-> Some(config_get_settings)]

\* get_cache_service: `return CacheService(backend=..., ttl=..., ...)`, a new
\* service with a new, empty MemoryCache at every call
get_cache_service(c, ao) == [cache |-> <<>>, access_order |-> <<>>]

\* POST /extract up to the provider call (or to its response)
AppRequestBegin(t, source, html_content, extraction_type, use_cache, confidence_threshold) ==
    LET resolved == ResolveSettings(source)
        store == get_cache_service(cache, access_order)
    IN  IF resolved.exc # ""
        THEN /\ ext[t].pc \in {"idle", "done", "failed"}
             /\ ext' = [ext EXCEPT ![t] =
                          [ExtIdle EXCEPT !.pc = "failed",
                                          !.html = html_content,
                                          !.extraction_type = extraction_type,
                                          !.use_cache = use_cache,
                                          !.threshold = confidence_threshold,
                                          !.steps = <<"failed">>,
                                          !.error = resolved.exc]]
             /\ llm' = [llm EXCEPT ![t] = LLMIdle]
             /\ UNCHANGED <<cacheVars, taskVars, batch, keycalls>>
        ELSE /\ ExtractBeginOn(t, store.cache, store.access_order, html_content,
                               extraction_type, use_cache, confidence_threshold, "")
             /\ UNCHANGED <<batch, keycalls>>

NextApp ==
    \/ \E t \in ExtTasks, src \in SettingsSources, h \in Docs, m \in Modes, u \in BOOLEAN,
          th \in Thresholds : AppRequestBegin(t, src, h, m, u, th)
    \/ \E t \in ExtTasks, c \in Contents : ExtractProviderReply(t, "", c)
    \/ \E t \in ExtTasks, e \in ExtErrors, c \in Contents : ExtractProviderReply(t, e, c)
    \/ \E t \in ExtTasks : ExtractFinish(t)

SpecApp == InitExtract /\ [][NextApp]_vars

(***************************************************************************)
(* The caller and the objects it shares with the cache.  to_cache_format   *)
(* puts the result's own extracted_data, confidence_scores and usage_stats *)
(* objects into the dict it returns, MemoryCache.set stores that dict and  *)
(* MemoryCache.get returns it, and from_cache puts its members into the    *)
(* result of a hit.  So, with one caller and the in-process backend, the   *)
(* dataset of the result returned last with use_cache true is the very     *)
(* object held by the entry under the call's key, for as long as that      *)
(* entry is stored.  A change made in place to the one shows in the other. *)
(***************************************************************************)
SharesDataset(e, c) ==
    /\ e.pc = "done"
    /\ e.use_cache
    /\ CallKey(e) \in DOMAIN c
    /\ c[CallKey(e)].value.extracted_data = e.result[1].extracted_data

\* `result.extracted_data['events'].pop()`, done by the caller
RemoveEvent(extracted_data) ==
    [extracted_data EXCEPT !.events = SubSeq(@, 1, Len(@) - 1)]

CallerModifiesResult(t) ==
    /\ ext[t].pc = "done"
    /\ ext[t].result # None
    /\ ext[t].result[1].extracted_data.events # <<>>
    /\ ext' = [ext EXCEPT ![t].result[1].extracted_data = RemoveEvent(@)]
    /\ cache' = IF SharesDataset(ext[t], cache)
                THEN [cache EXCEPT ![CallKey(ext[t])].value.extracted_data = RemoveEvent(@)]
                ELSE cache
    /\ UNCHANGED <<access_order, max_size, now, last, lastAccess, taskVars, llm, batch, keycalls>>

NextAlias ==
    \/ \E t \in ExtTasks, h \in Docs, m \in Modes, u \in BOOLEAN, th \in Thresholds :
          ExtractBegin(t, h, m, u, th)
    \/ \E t \in ExtTasks, c \in Contents : ExtractProviderReply(t, "", c)
    \/ \E t \in ExtTasks, e \in ExtErrors, c \in Contents : ExtractProviderReply(t, e, c)
    \/ \E t \in ExtTasks : ExtractFinish(t)
    \/ \E t \in ExtTasks : CallerModifiesResult(t)

SpecAlias == InitExtract /\ [][NextAlias]_vars

(***************************************************************************)
(* CacheService.generate_cache_key on its own: the key of a page, and the  *)
(* key of a second call whose page and mode are edited step by step.       *)
(***************************************************************************)
\* a page whose style sheet stands between two runs of whitespace
DocC == << Element("p", <<>>, "Alpha"), Whitespace(" "), Element("style", <<>>, "s1"),
           Whitespace("\n"), Text("Gamma") >>
KeyDocs == {DocA, DocB, DocC}
\* what an edit writes into a script or a style or a meta's content, and into
\* a volatile attribute; a run of whitespace; the text of an element
VolatileTexts == {"x1", "x2"}
AttrValues == {"v1"}
WhitespaceRuns == {" ", "  ", "\n"}
ElementTexts == {"Alpha", "Beta"}
Positions == 1..5

\* a call of generate_cache_key with what it computed
KeyCall(html_content, extraction_type) ==
    [html_content |-> html_content,
     extraction_type |-> extraction_type,
     normalized |-> normalize_for_cache(html_content),
     key |-> generate_cache_key(html_content, extraction_type)]

IsElement(node) == node.tag \notin {"#text", "#ws"}

\* the second call is made again on the edited page
SecondCall(html_content, extraction_type) ==
    /\ keycalls' = [keycalls EXCEPT ![2] = KeyCall(html_content, extraction_type)]
    /\ UNCHANGED <<cacheVars, taskVars, llm, ext, batch>>

\* the content of a script, a style or a meta changes
EditVolatileElement(i, v) ==
    LET html == keycalls[2].html_content
    IN  /\ i \in DOMAIN html
        /\ html[i].tag \in {"script", "style", "meta"}
        /\ SecondCall([html EXCEPT ![i] =
                         IF @.tag = "meta"
                         THEN [@ EXCEPT !.attrs = ("content" :> v) @@ @]
                         ELSE [@ EXCEPT !.text = v]],
                      keycalls[2].extraction_type)

\* an element that is kept gets an id, a data-timestamp or a data-time, or a
\* new value of it
SetVolatileAttr(i, name, v) ==
    LET html == keycalls[2].html_content
    IN  /\ i \in DOMAIN html
        /\ IsElement(html[i])
        /\ html[i].tag \notin {"script", "style", "meta"}
        /\ SecondCall([html EXCEPT ![i].attrs = (name :> v) @@ @],
                      keycalls[2].extraction_type)

\* an element loses its id, data-timestamp or data-time
RemoveVolatileAttr(i, name) ==
    LET html == keycalls[2].html_content
    IN  /\ i \in DOMAIN html
        /\ IsElement(html[i])
        /\ name \in DOMAIN html[i].attrs
        /\ SecondCall([html EXCEPT ![i] = DropAttrs(@, {name})],
                      keycalls[2].extraction_type)

\* a run of whitespace becomes another run
EditWhitespace(i, run) ==
    LET html == keycalls[2].html_content
    IN  /\ i \in DOMAIN html
        /\ IsWhitespace(html[i])
        /\ SecondCall([html EXCEPT ![i].text = run], keycalls[2].extraction_type)

\* the text of an element that is kept changes
EditText(i, s) ==
    LET html == keycalls[2].html_content
    IN  /\ i \in DOMAIN html
        /\ IsElement(html[i])
        /\ html[i].tag \notin {"script", "style", "meta"}
        /\ SecondCall([html EXCEPT ![i].text = s], keycalls[2].extraction_type)

\* the second call is made in another mode
ChangeMode(extraction_type) ==
    /\ extraction_type # keycalls[2].extraction_type
    /\ SecondCall(keycalls[2].html_content, extraction_type)

InitKey ==
    /\ InitStore
    /\ lock = None
    /\ pc = <<>>
    /\ req = <<>>
    /\ llm = <<>>
    /\ ext = <<>>
    /\ batch = NoBatch
    /\ keycalls \in {<<KeyCall(h, m), KeyCall(h, m)>> : h \in KeyDocs, m \in Modes}

NextKey ==
    \/ \E i \in Positions, v \in VolatileTexts : EditVolatileElement(i, v)
    \/ \E i \in Positions, name \in {"data-timestamp", "data-time", "id"},
          v \in AttrValues : SetVolatileAttr(i, name, v)
    \/ \E i \in Positions, name \in {"data-timestamp", "data-time", "id"} :
          RemoveVolatileAttr(i, name)
    \/ \E i \in Positions, run \in WhitespaceRuns : EditWhitespace(i, run)
    \/ \E i \in Positions, s \in ElementTexts : EditText(i, s)
    \/ \E m \in Modes : ChangeMode(m)

SpecKey == InitKey /\ [][NextKey]_vars

(***************************************************************************)
(* Properties of the cache store                                           *)
(***************************************************************************)
\* the specification's notion of an expired entry: it has a ttl and its age
\* (now minus created_at) is greater than that ttl
Stale(entry, t) == entry.ttl # None /\ t - entry.created_at > entry.ttl[1]

\* C1: when the store holds exactly max_size entries, all of them live, a set
\* of a key that is not stored removes exactly one entry, the one whose last
\* access (its insertion, or the last get that returned it) is the oldest,
\* and keeps every other entry as it was.
C1_EvictsLeastRecentlyAccessed ==
    [][(/\ last'.op = "set"
        /\ last'.key \notin DOMAIN cache
        /\ Cardinality(DOMAIN cache) = max_size
        /\ \A k \in DOMAIN cache : ~Stale(cache[k], now))
       => \E g \in DOMAIN cache :
             /\ lastAccess[g] = 1
             /\ DOMAIN cache' = ((DOMAIN cache) \ {g}) \cup {last'.key}
             /\ \A k \in (DOMAIN cache) \ {g} : cache'[k] = cache[k]]_vars

\* a set into a full store of capacity 2 has just evicted a key
C1_Witness ==
    /\ last.op = "set"
    /\ last.evicted # None
    /\ max_size = 2
    /\ Cardinality(DOMAIN cache) = 2

\* C2: the number of stored entries never exceeds max_size.
C2_SizeBounded == Cardinality(DOMAIN cache) <= max_size

\* the store is full after a set that had to evict
C2_Witness ==
    /\ last.op = "set"
    /\ last.ok
    /\ last.evicted # None
    /\ Cardinality(DOMAIN cache) = max_size

\* C3: a get never returns the value of an entry whose age is greater than
\* its ttl; when it reports absent, the key is stored neither in the entry map
\* nor in the recency list afterwards.
C3_NoStaleRead ==
    last.op = "get" =>
        IF last.ret # None
        THEN last.key \in DOMAIN cache /\ ~Stale(cache[last.key], now)
        ELSE last.key \notin DOMAIN cache /\ ~InList(access_order, last.key)

\* C4 as stated: a get that directly follows a set of the same key, with no
\* time passing, returns the value that was set, for every ttl.
C4_RoundTripAnyTTL ==
    [][(last.op = "set" /\ last'.op = "get" /\ last'.key = last.key)
       => last'.ret = Some(last.value)]_vars

\* C4 amended: the same for a ttl that is absent or not negative.
C4_RoundTrip ==
    [][(/\ last.op = "set" /\ last'.op = "get" /\ last'.key = last.key
        /\ (last.ttl = None \/ last.ttl[1] >= 0))
       => last'.ret = Some(last.value)]_vars

\* a get directly after a set of its key returned a value from a full store
C4_Witness ==
    /\ last.op = "get"
    /\ last.follows_set
    /\ last.ret # None
    /\ Cardinality(DOMAIN cache) = max_size

\* C5: under every interleaving of concurrent get, set and delete calls the
\* recency list holds exactly the keys of the entry map, each exactly once.
C5_OrderMatchesMap ==
    /\ Len(access_order) = Cardinality(DOMAIN cache)
    /\ {access_order[i] : i \in 1..Len(access_order)} = DOMAIN cache

\* one task holds the lock while the other waits for it, after a set that
\* evicted a key
C5_Witness ==
    /\ lock = Some("t1")
    /\ pc["t2"] = "acquire"
    /\ last.op = "set"
    /\ last.evicted # None
    /\ cache # <<>>

(***************************************************************************)
(* Properties of the LLM client                                            *)
(***************************************************************************)
\* C6: a call whose provider invocations all failed with transient failures
\* fails only after the 3rd of them (after a transient failure the provider
\* is invoked again while attempts are left).
C6_RetriesTransient ==
    \A t \in DOMAIN llm :
        (/\ llm[t].pc = "raised"
         /\ \A i \in 1..Len(llm[t].log) : llm[t].log[i] \in TransientErrors)
        => Len(llm[t].log) = MaxAttempts

\* C7: when the provider fails with a failure outside the transient set, it
\* was invoked exactly once for that call, the call has failed with
\* OpenAIServiceError and holds no result.
C7_FatalFailsAtOnce ==
    \A t \in DOMAIN llm :
        (llm[t].log # <<>> /\ llm[t].log[1] \in FatalErrors)
        => /\ Len(llm[t].log) = 1
           /\ llm[t].pc = "raised"
           /\ llm[t].error = "OpenAIServiceError"
           /\ llm[t].result = None

\* a completion call and an embedding call have both failed on a fatal error
C7_Witness ==
    /\ llm["t1"].fn = "extract_content"
    /\ llm["t1"].log = <<"AuthenticationError">>
    /\ llm["t1"].pc = "raised"
    /\ llm["t2"].fn = "generate_embedding"
    /\ llm["t2"].log = <<"BadRequestError">>
    /\ llm["t2"].pc = "raised"

(***************************************************************************)
(* Properties of extract_content                                           *)
(***************************************************************************)
MissOrder ==
    <<"cache_lookup", "preprocess", "invoke", "parse", "filter", "cache_write", "done">>

IsPrefix(p, q) == Len(p) <= Len(q) /\ SubSeq(q, 1, Len(p)) = p

Count(q, x) == Cardinality({i \in 1..Len(q) : q[i] = x})

\* what a call answered from the cache looks like once it has returned
AnsweredFromCache(t) ==
    /\ ext'[t].pc = "done"
    /\ ext'[t].result # None
    /\ ext'[t].result[1].cache_hit = TRUE
    /\ Count(ext'[t].steps, "invoke") = 0
    /\ llm'[t].pc = "idle"
    /\ llm'[t].log = <<>>
    /\ cache' = cache

\* C8 as stated: whenever extract_content is called with use_cache true and
\* the cache holds an entry under the call's key, the call returns a result
\* with cache_hit = true, the provider is not invoked and no entry of the
\* cache is written.  (Fails: an entry older than its ttl is still held.)
C8_HitWheneverHeld ==
    [][\A t \in ExtTasks, h \in Docs, m \in Modes, th \in Thresholds :
          (/\ ext'[t].html = h /\ ext'[t].extraction_type = m
           /\ generate_cache_key(h, m) \in DOMAIN cache
           /\ ExtractBegin(t, h, m, TRUE, th))
          => AnsweredFromCache(t)]_vars

\* C8, amended: whenever extract_content is called with use_cache true and
\* the cache holds an entry under the call's key that is not older than its
\* ttl, the call returns a result with cache_hit = true, the provider is not
\* invoked and no entry of the cache is written.
C8_HitWhenLive ==
    [][\A t \in ExtTasks, h \in Docs, m \in Modes, th \in Thresholds :
          (/\ ext'[t].html = h /\ ext'[t].extraction_type = m
           /\ generate_cache_key(h, m) \in DOMAIN cache
           /\ ~Stale(cache[generate_cache_key(h, m)], now)
           /\ ExtractBegin(t, h, m, TRUE, th))
          => AnsweredFromCache(t)]_vars

\* a call was answered from an entry that an earlier fetch of the same page,
\* differing in its volatile parts, had stored some time before
C8_Witness ==
    \E t \in ExtTasks :
        /\ ext[t].pc = "done"
        /\ ext[t].use_cache
        /\ ext[t].result # None
        /\ ext[t].result[1].cache_hit = TRUE
        /\ ext[t].result[1].extracted_data.events # <<>>
        /\ CallKey(ext[t]) \in DOMAIN cache
        /\ cache[CallKey(ext[t])].created_at < now

\* some entry of the cache is added or replaced by the step
EntryWritten(k) ==
    /\ k \in DOMAIN cache'
    /\ (k \in DOMAIN cache => cache'[k] # cache[k])

\* C9: on a miss with use_cache true the steps of extract_content run in the
\* order cache lookup, preprocess, provider invocation, parse, filter, cache
\* write, done; the orchestrator invokes the provider exactly once; and an
\* entry is written to the cache only by the step that follows a provider
\* call that returned and a parse that succeeded, under the call's key, with
\* the result the call returns.
C9_MissOrder ==
    [][\A t \in ExtTasks :
          /\ (ext'[t].use_cache /\ ext'[t].pc # "idle"
                /\ ~(ext'[t].result # None /\ ext'[t].result[1].cache_hit))
             => /\ \/ IsPrefix(ext'[t].steps, MissOrder)
                   \/ /\ ext'[t].pc = "failed"
                      /\ IsPrefix(SubSeq(ext'[t].steps, 1, Len(ext'[t].steps) - 1),
                                  MissOrder)
                /\ ext'[t].pc = "done"
                   => /\ ext'[t].steps = MissOrder
                      /\ Count(ext'[t].steps, "invoke") = 1
                      /\ llm'[t].fn = "extract_content"
                      /\ llm'[t].pc = "returned"
          /\ \A k \in DOMAIN cache' :
                EntryWritten(k)
                => \E u \in ExtTasks :
                      /\ ext[u].pc = "awaiting"
                      /\ ext[u].use_cache
                      /\ llm[u].pc = "returned"
                      /\ parse_openai_response(llm[u].result[1].extracted_data).raised = ""
                      /\ ext'[u].pc = "done"
                      /\ k = CallKey(ext[u])
                      /\ cache'[k].value = to_cache_format(ext'[u].result[1])]_vars

\* a miss ran to its end and stored its result beside another entry
C9_Witness ==
    \E t \in ExtTasks :
        /\ ext[t].pc = "done"
        /\ ext[t].use_cache
        /\ ext[t].steps = MissOrder
        /\ ext[t].result[1].extracted_data.events = <<KeptGoodEvent>>
        /\ CallKey(ext[t]) \in DOMAIN cache
        /\ cache[CallKey(ext[t])].value = to_cache_format(ext[t].result[1])
        /\ Cardinality(DOMAIN cache) = 2

\* C10: when the provider call fails, extract_content ends in failure with
\* ContentExtractionError and without a result, the step that ends it leaves
\* the cache as it was, no entry is held under the call's key when the cache
\* was consulted, and the same call made again invokes the provider again.
C10_ProviderFailure ==
    [][\A t \in ExtTasks :
          /\ (ext[t].pc = "awaiting" /\ llm[t].pc = "raised" /\ ExtractFinish(t))
             => /\ ext'[t].pc = "failed"
                /\ ext'[t].error = "ContentExtractionError"
                /\ ext'[t].result = None
                /\ cache' = cache
                /\ access_order' = access_order
                /\ ext[t].use_cache => CallKey(ext[t]) \notin DOMAIN cache'
          /\ (/\ ext[t].pc = "failed"
              /\ llm[t].pc = "raised"
              /\ ExtractBegin(t, ext[t].html, ext[t].extraction_type,
                              ext[t].use_cache, ext[t].threshold))
             => /\ ext'[t].pc = "awaiting"
                /\ llm'[t].pc = "attempt"
                /\ llm'[t].log = <<>>]_vars

\* a call failed on a provider error while the cache held another entry
C10_Witness ==
    \E t \in ExtTasks :
        /\ ext[t].pc = "failed"
        /\ ext[t].use_cache
        /\ llm[t].pc = "raised"
        /\ llm[t].log = <<"RateLimitError">>
        /\ ext[t].error = "ContentExtractionError"
        /\ cache # <<>>
        /\ CallKey(ext[t]) \notin DOMAIN cache

(***************************************************************************)
(* Properties of the cache service and of extract_content when the         *)
(* backend fails                                                           *)
(***************************************************************************)
\* the provider has answered call t and the answer parses
ProviderAndParseDone(t) ==
    /\ ext[t].pc = "awaiting"
    /\ llm[t].pc = "returned"
    /\ parse_openai_response(llm[t].result[1].extracted_data).raised = ""

\* C11: when the cache write that ends a successful extraction does not go
\* through (the backend raises, or reports failure), extract_content returns
\* the very result it returns when the write succeeds, and raises nothing.
C11_WriteFailureKeepsResult ==
    [][\A t \in ExtTasks, f \in Faults :
          (/\ ProviderAndParseDone(t)
           /\ ext[t].use_cache
           /\ ExtractFinishWith(t, f))
          => /\ ext'[t].pc = "done"
             /\ ext'[t].error = ""
             /\ ext'[t].result # None
             /\ ext'[t].result =
                   AfterProvider(ext[t], llm[t], cache, access_order, max_size, now).ext.result
             /\ cache' = cache]_vars

\* a miss returned its result although nothing is stored under its key (no
\* direct call of the cache service was made, and nothing was evicted)
C11_Witness ==
    \E t \in ExtTasks :
        /\ last.op = "init"
        /\ ext[t].pc = "done"
        /\ ext[t].use_cache
        /\ ext[t].steps = MissOrder
        /\ ext[t].result # None
        /\ ext[t].result[1].extracted_data.events = <<KeptGoodEvent>>
        /\ ~ext[t].result[1].cache_hit
        /\ max_size = 2
        /\ CallKey(ext[t]) \notin DOMAIN cache

\* C12: an exception of the backend never leaves the cache service: get then
\* returns None, set and delete return False, the store is as before; and an
\* extract_content whose lookup fails so goes on as on a miss (preprocess,
\* provider call), also when a live entry is stored under its key.
C12_BackendFailureContained ==
    [][/\ \A k \in FaultKeys :
             FaultyServiceGet(k, "raise")
             => last'.ret = None /\ last'.exc = "" /\ cache' = cache
       /\ \A k \in FaultKeys, v \in FaultValues :
             FaultyServiceSet(k, v, "raise")
             => last'.ok = FALSE /\ last'.exc = "" /\ cache' = cache
       /\ \A k \in FaultKeys :
             FaultyServiceDelete(k, "raise")
             => last'.ok = FALSE /\ last'.exc = "" /\ cache' = cache
       /\ \A t \in ExtTasks, h \in FaultDocs, th \in Thresholds :
             ExtractBeginWith(t, h, "full", TRUE, th, "raise")
             => /\ ext'[t].pc = "awaiting"
                /\ ext'[t].error = ""
                /\ ext'[t].steps = <<"cache_lookup", "preprocess", "invoke">>
                /\ llm'[t] = LLMStarted("extract_content")
                /\ cache' = cache]_vars

\* a call is on its way to the provider although a live entry is stored
\* under its key (no direct call of the cache service was made)
C12_Witness ==
    \E t \in ExtTasks :
        /\ last.op = "init"
        /\ ext[t].pc = "awaiting"
        /\ ext[t].use_cache
        /\ llm[t].pc = "attempt"
        /\ CallKey(ext[t]) \in DOMAIN cache
        /\ ~Stale(cache[CallKey(ext[t])], now)

(***************************************************************************)
(* Properties of extract_batch                                             *)
(***************************************************************************)
\* item i failed on its provider call
ProviderFailed(i) == ext[i].pc = "failed" /\ llm[i].pc = "raised"

\* C13: when an item of a batch of N fails on its provider call, extract_batch
\* returns a list of N records; the record of a failed item has success =
\* false, the item's error and the item's url; the record of every other item
\* has success = true and the data of that item's own extraction; and the
\* step in which an item fails changes no other item.
C13_BatchIsolation ==
    [][/\ (/\ batch.pc = "gathering"
           /\ batch'.pc # "gathering"
           /\ \E i \in DOMAIN ext : ProviderFailed(i))
          => /\ batch'.pc = "done"
             /\ Len(batch'.results) = Len(batch.requests)
             /\ \A j \in DOMAIN ext :
                   IF ext[j].pc = "failed"
                   THEN batch'.results[j] =
                           [success |-> FALSE, error |-> ext[j].error,
                            url |-> batch.requests[j].url]
                   ELSE /\ batch'.results[j].success
                        /\ batch'.results[j].url = batch.requests[j].url
                        /\ batch'.results[j].extraction_data
                              = ext[j].result[1].extracted_data
                        /\ batch'.results[j].confidence_scores
                              = ext[j].result[1].confidence_scores
       /\ \A i \in DOMAIN ext :
             (batch.pc = "gathering" /\ DOMAIN ext' = DOMAIN ext
                /\ ext[i].pc = "awaiting" /\ ext'[i].pc = "failed")
             => \A k \in (DOMAIN ext) \ {i} :
                   /\ ext'[k] = ext[k]
                   /\ llm'[k] = llm[k]]_vars

\* a batch of three returned after its second item had failed first, on a
\* provider error, and its two siblings had succeeded after that
C13_Witness ==
    /\ batch.pc = "done"
    /\ Len(batch.requests) = 3
    /\ batch.completed = <<2, 1, 3>>
    /\ ProviderFailed(2)
    /\ ~batch.results[2].success
    /\ batch.results[1].success
    /\ batch.results[3].success
    /\ batch.results[1].extraction_data.events = <<KeptGoodEvent>>
    /\ ~batch.results[3].cache_hit

\* C14: extract_batch returns only when every item has returned or raised;
\* its list has one record per request; and record j belongs to request j:
\* it carries the url of request j and the outcome of item j, whatever the
\* order in which the items completed.
C14_BatchOrder ==
    batch.pc = "done"
    => /\ \A j \in DOMAIN ext : Settled(ext[j])
       /\ Len(batch.completed) = Len(batch.requests)
       /\ DOMAIN batch.results = DOMAIN batch.requests
       /\ \A j \in DOMAIN batch.results :
             /\ batch.results[j].url = batch.requests[j].url
             /\ batch.results[j].success = (ext[j].pc = "done")
             /\ batch.results[j].success
                => /\ batch.results[j].extraction_data = ext[j].result[1].extracted_data
                   /\ batch.results[j].cache_hit = ext[j].result[1].cache_hit
             /\ ~batch.results[j].success => batch.results[j].error = ext[j].error

\* a batch of three different urls returned after its items had completed in
\* the order 3, 1, 2, with different data for the first and the third
C14_Witness ==
    /\ batch.pc = "done"
    /\ Len(batch.requests) = 3
    /\ batch.completed = <<3, 1, 2>>
    /\ Cardinality({batch.requests[j].url : j \in 1..3}) = 3
    /\ batch.results[1].success
    /\ batch.results[3].success
    /\ batch.results[1].extraction_data # batch.results[3].extraction_data
    /\ ~batch.results[2].success

(***************************************************************************)
(* Properties of the application                                           *)
(***************************************************************************)
\* the request served last returned a fresh result and stored it
WroteResult(t) ==
    /\ ext[t].pc = "done"
    /\ ext[t].use_cache
    /\ ext[t].steps = MissOrder
    /\ CallKey(ext[t]) \in DOMAIN cache

\* C15: after a request with use_cache true has returned and stored its
\* result, the next request for the same HTML and mode, with no time passed
\* and nothing evicted, is answered from the cache: cache_hit = true and no
\* provider call.
C15_LaterRequestHits ==
    [][\A t \in ExtTasks, src \in SettingsSources, th \in Thresholds :
          (/\ WroteResult(t)
           /\ AppRequestBegin(t, src, ext[t].html, ext[t].extraction_type, TRUE, th))
          => /\ ext'[t].pc = "done"
             /\ ext'[t].result # None
             /\ ext'[t].result[1].cache_hit = TRUE
             /\ llm'[t].pc = "idle"]_vars

(***************************************************************************)
(* Properties of ExtractionResult                                          *)
(***************************************************************************)
\* C16: for every result r that extract_content returns, fresh or from the
\* cache, from_cache(to_cache_format(r)) equals r in every field except
\* cache_hit, which is true; and a result returned on a hit has the data,
\* scores, processing time, model and usage stats of the entry stored under
\* its key, which is the cache form of the fresh result written there.
C16_RehydrateRoundTrip ==
    \A t \in ExtTasks :
        (ext[t].pc = "done" /\ ext[t].result # None)
        => LET r == ext[t].result[1]
           IN  /\ from_cache(to_cache_format(r)) = [r EXCEPT !.cache_hit = TRUE]
               /\ (r.cache_hit /\ CallKey(ext[t]) \in DOMAIN cache)
                  => /\ to_cache_format(r) = cache[CallKey(ext[t])].value
                     /\ r = from_cache(cache[CallKey(ext[t])].value)

\* a hit returned a result with entities, scores and usage stats, some time
\* after the entry was written
C16_Witness ==
    \E t \in ExtTasks :
        /\ ext[t].pc = "done"
        /\ ext[t].result # None
        /\ ext[t].result[1].cache_hit
        /\ ext[t].result[1].extracted_data.speakers = <<KeptGoodSpeaker>>
        /\ ext[t].result[1].confidence_scores.overall = 
            Mean(<<score_event(GoodEvent), score_speaker(GoodSpeaker)>>)
        /\ ext[t].result[1].usage_stats.total_tokens = 150
        /\ ext[t].result[1].model_used = "gpt-4"
        /\ ext[t].start_time > 0

(***************************************************************************)
(* Properties of the ownership of results                                  *)
(***************************************************************************)
\* C17: a caller that modifies the result it was handed (removes an event
\* from its dataset) changes no entry of the cache, so a later hit under the
\* same key returns what was written.
C17_CallerCannotChangeCache ==
    [][\A t \in ExtTasks : CallerModifiesResult(t) => cache' = cache]_vars


(***************************************************************************)
(* extract_content over the texts a completion can hold: JSON, JSON inside *)
(* a markdown fence, with a trailing comma or without its braces, a value  *)
(* that is not an object, and text that is no JSON.                        *)
(***************************************************************************)
\* a JSON object with only some of its members
Restrict(d, keys) == [k \in keys |-> d[k]]

\* the members the provider writes: all five, the events only, or none
ParseKeySets == {RequiredKeys, {"events"}, {}}

ParseTexts ==
    {JsonText(kind, braced, fence, trailing_comma,
              IF kind = "object"
              THEN Restrict(Dataset(events, <<>>, <<>>), keys) ELSE <<>>) :
        kind \in {"object", "malformed", "not_object"}, braced \in BOOLEAN,
        fence \in {"", "json", "plain"}, trailing_comma \in BOOLEAN,
        events \in {<<>>, <<GoodEvent>>}, keys \in ParseKeySets}

NextParse ==
    \/ \E t \in ExtTasks, u \in BOOLEAN, th \in Thresholds :
          ExtractBegin(t, DocB, "full", u, th)
    \/ \E t \in ExtTasks, text \in ParseTexts : ExtractProviderReply(t, "", text)
    \/ \E t \in ExtTasks : ExtractFinish(t)

SpecParse == InitExtract /\ [][NextParse]_vars

(***************************************************************************)
(* The ConfidenceScorer on its own: an entity is scored, then a field it   *)
(* lacks is added and it is scored again.                                  *)
(***************************************************************************)
Absent == Str(0, 0, "absent")

\* the dict of the fields that are given
Dict(fields) == [f \in {g \in DOMAIN fields : fields[g] # Absent} |-> fields[f]]

\* the strings a field is given: lengths on both sides of the limits the
\* scorer tests, strings with whitespace around them, well-formed and other
\* dates and URLs
EventFieldValues ==
    [title |-> {Str(5, 0, "plain"), Str(10, 0, "plain"), Str(14, 0, "keyword"),
                Str(4, 4, "plain")},
     date |-> {Str(10, 0, "date"), Str(6, 0, "plain")},
     location |-> {Str(2, 0, "plain"), Str(4, 0, "plain")},
     description |-> {Str(10, 0, "plain"), Str(11, 0, "plain"), Str(50, 0, "plain"),
                      Str(51, 0, "plain"), Str(9, 45, "plain")},
     time |-> {Str(5, 0, "plain")},
     event_type |-> {Str(7, 0, "plain")},
     registration_url |-> {Str(20, 0, "url")},
     price |-> {Str(4, 0, "plain")}]

SpeakerFieldValues ==
    [name |-> {Str(3, 0, "plain"), Str(8, 0, "plain"), Str(12, 0, "full_name")},
     title |-> {Str(3, 0, "plain"), Str(5, 0, "plain")},
     company |-> {Str(2, 0, "plain"), Str(4, 0, "plain")},
     bio |-> {Str(5, 0, "plain"), Str(6, 0, "plain"), Str(21, 0, "plain")},
     linkedin_url |-> {Str(20, 0, "url"), Str(8, 0, "plain")},
     twitter_url |-> {Str(20, 0, "url")},
     website_url |-> {Str(20, 0, "url")}]

CompanyFieldValues ==
    [name |-> {Str(2, 0, "plain"), Str(4, 0, "plain")},
     website_url |-> {Str(20, 0, "url"), Str(8, 0, "plain")},
     description |-> {Str(30, 0, "plain")},
     industry |-> {Str(8, 0, "plain")},
     relationship_type |-> {Str(7, 0, "relationship"), Str(6, 0, "plain")}]

\* a field is given one of its strings or left out
Given(values, field) == values[field] \cup {Absent}

Events ==
    {Dict([title |-> title, date |-> date, location |-> location,
           description |-> description, time |-> time, event_type |-> event_type,
           registration_url |-> registration_url, price |-> price]) :
        title \in Given(EventFieldValues, "title"),
        date \in Given(EventFieldValues, "date"),
        location \in Given(EventFieldValues, "location"),
        description \in Given(EventFieldValues, "description"),
        time \in Given(EventFieldValues, "time"),
        event_type \in Given(EventFieldValues, "event_type"),
        registration_url \in Given(EventFieldValues, "registration_url"),
        price \in Given(EventFieldValues, "price")}

Speakers ==
    {Dict([name |-> name, title |-> title, company |-> company, bio |-> bio,
           linkedin_url |-> linkedin_url, twitter_url |-> twitter_url,
           website_url |-> website_url]) :
        name \in Given(SpeakerFieldValues, "name"),
        title \in Given(SpeakerFieldValues, "title"),
        company \in Given(SpeakerFieldValues, "company"),
        bio \in Given(SpeakerFieldValues, "bio"),
        linkedin_url \in Given(SpeakerFieldValues, "linkedin_url"),
        twitter_url \in Given(SpeakerFieldValues, "twitter_url"),
        website_url \in Given(SpeakerFieldValues, "website_url")}

Companies ==
    {Dict([name |-> name, website_url |-> website_url, description |-> description,
           industry |-> industry, relationship_type |-> relationship_type]) :
        name \in Given(CompanyFieldValues, "name"),
        website_url \in Given(CompanyFieldValues, "website_url"),
        description \in Given(CompanyFieldValues, "description"),
        industry \in Given(CompanyFieldValues, "industry"),
        relationship_type \in Given(CompanyFieldValues, "relationship_type")}

ScoreOps == {"score_event", "score_speaker", "score_company"}

FieldValuesOf(op) ==
    CASE op = "score_event" -> EventFieldValues
      [] op = "score_speaker" -> SpeakerFieldValues
      [] op = "score_company" -> CompanyFieldValues

Score(op, entity) ==
    CASE op = "score_event" -> score_event(entity)
      [] op = "score_speaker" -> score_speaker(entity)
      [] op = "score_company" -> score_company(entity)

\* the record of a call of the scorer
Scored(op, entity) ==
    [NoCall EXCEPT !.op = op, !.value = entity, !.ret = Some(Score(op, entity))]

\* the scorer is called for the first time
ScoreEntity(op, entity) ==
    /\ last.op = "init"
    /\ last' = Scored(op, entity)
    /\ UNCHANGED <<cache, access_order, max_size, now, lastAccess, taskVars, extVars>>

\* the entity scored last is given a field it lacks and is scored again
AddField(field, value) ==
    /\ last.op \in ScoreOps
    /\ field \in DOMAIN FieldValuesOf(last.op)
    /\ field \notin DOMAIN last.value
    /\ value \in FieldValuesOf(last.op)[field]
    /\ last' = Scored(last.op, (field :> value) @@ last.value)
    /\ UNCHANGED <<cache, access_order, max_size, now, lastAccess, taskVars, extVars>>

FieldNames == DOMAIN EventFieldValues \cup DOMAIN SpeakerFieldValues
                 \cup DOMAIN CompanyFieldValues
FieldStrings ==
    UNION ({EventFieldValues[f] : f \in DOMAIN EventFieldValues}
           \cup {SpeakerFieldValues[f] : f \in DOMAIN SpeakerFieldValues}
           \cup {CompanyFieldValues[f] : f \in DOMAIN CompanyFieldValues})

\* the entities the first call is made on: those of one field at most
Sparse(entities) == {entity \in entities : Cardinality(DOMAIN entity) <= 1}

NextScore ==
    \/ \E event \in Sparse(Events) : ScoreEntity("score_event", event)
    \/ \E speaker \in Sparse(Speakers) : ScoreEntity("score_speaker", speaker)
    \/ \E company \in Sparse(Companies) : ScoreEntity("score_company", company)
    \/ \E field \in FieldNames, value \in FieldStrings : AddField(field, value)

SpecScore == InitExtract /\ [][NextScore]_vars

(***************************************************************************)
(* extract_content on answers with entities of every kind: the provider    *)
(* returns a JSON object whose entities score below, at and above the      *)
(* thresholds the callers pass.                                            *)
(***************************************************************************)
\* an event the provider gave a confidence_score of its own (0.1)
OwnScoreEvent == [GoodEvent EXCEPT !.title = Str(12, 0, "plain")] @@ ("confidence_score" :> Tenths(1))
\* a speaker with a name only (0.35) and companies scoring 0.65 and 0.75
WeakSpeaker == [name |-> Str(8, 0, "plain")]
SmallCompany == [name |-> Str(6, 0, "plain"), website_url |-> Str(20, 0, "url")]
GoodCompany ==
    [name |-> Str(6, 0, "plain"), website_url |-> Str(20, 0, "url"),
     industry |-> Str(8, 0, "plain")]

\* 0.7 is the default of extract_content; 0.55 and 0.75 are scores of events
FilterThresholds == {55, 70, 75}

FilterEventLists ==
    {<<>>} \cup {<<e>> : e \in {TestEvent, GoodEvent, OwnScoreEvent, WeakEvent}}
           \cup {<<TestEvent, GoodEvent>>, <<GoodEvent, TestEvent>>,
                 <<OwnScoreEvent, WeakEvent, GoodEvent>>}
FilterSpeakerLists == {<<>>, <<WeakSpeaker, GoodSpeaker>>}
FilterCompanyLists == {<<>>, <<GoodCompany, SmallCompany>>}
FilterTopics == {<<>>, <<"ai", "ml">>}

FilterContents ==
    {JsonText("object", TRUE, "", FALSE,
              [Dataset(events, speakers, companies) EXCEPT !.topics = topics]) :
        events \in FilterEventLists, speakers \in FilterSpeakerLists,
        companies \in FilterCompanyLists, topics \in FilterTopics}

NextFilter ==
    \/ \E t \in ExtTasks, u \in BOOLEAN, th \in FilterThresholds :
          ExtractBegin(t, DocB, "full", u, th)
    \/ \E t \in ExtTasks, content \in FilterContents : ExtractProviderReply(t, "", content)
    \/ \E t \in ExtTasks : ExtractFinish(t)

SpecFilter == InitExtract /\ [][NextFilter]_vars

(***************************************************************************)
(* preprocess_html on its own: pages with and without scripts, JSON-LD     *)
(* data, Open-Graph metas and navigation, and with paragraphs that make    *)
(* the content shorter than, as long as and longer than MaxContentLen.     *)
(***************************************************************************)
PrepScripts ==
    {<<>>, <<Element("script", <<>>, "js1")>>}
    \cup {<<Element("script", ("type" :> "application/ld+json"), text)>> :
             text \in {"ld1", "ld1c", "x1", ""}}
PrepMetas ==
    {<<>>, <<Element("meta", ("property" :> "og:title") @@ ("content" :> "c1"), "")>>}
PrepNavs == {<<>>, <<Element("nav", <<>>, "Menu")>>}
PrepParagraphs == {"Para"} \cup DOMAIN FillerChars
PrepTails == {<<>>, <<Element("p", <<>>, "Tail")>>}

PrepDocs ==
    {metas \o scripts \o navs \o <<Element("h1", <<>>, "Title"), Element("p", <<>>, text)>>
       \o tails :
        metas \in PrepMetas, scripts \in PrepScripts, navs \in PrepNavs,
        text \in PrepParagraphs, tails \in PrepTails}

Preprocess(html_content) ==
    /\ last' = [NoCall EXCEPT !.op = "preprocess_html", !.value = html_content,
                              !.ret = Some(preprocess_html(html_content))]
    /\ UNCHANGED <<cache, access_order, max_size, now, lastAccess, taskVars, extVars>>

NextPrep == \E html_content \in PrepDocs : Preprocess(html_content)

SpecPrep == InitExtract /\ [][NextPrep]_vars

(***************************************************************************)
(* Cache keys                                                              *)
(***************************************************************************)
\* a key reads extraction:{mode}:{digest prefix}
KeyForm(key, mode) ==
    /\ DOMAIN key = {"prefix", "mode", "digest"}
    /\ key.prefix = "extraction"
    /\ key.mode = mode
    /\ key.digest.digits > 0

\* C18: two calls of generate_cache_key with equal normalized content and
\* equal mode return equal keys; two calls with the same content and
\* different modes return different keys; every key has the form
\* extraction:{mode}:{digest prefix}, the prefix being of one length for all.
C18_KeyDeterminedByContentAndMode ==
    keycalls # NoKeyCalls =>
        LET a == keycalls[1]
            b == keycalls[2]
        IN  /\ (a.normalized = b.normalized /\ a.extraction_type = b.extraction_type)
                  => a.key = b.key
            /\ (a.html_content = b.html_content /\ a.extraction_type # b.extraction_type)
                  => a.key # b.key
            /\ KeyForm(a.key, a.extraction_type)
            /\ KeyForm(b.key, b.extraction_type)
            /\ a.key.digest.digits = b.key.digest.digits

\* the same page was keyed under two modes
C18_Witness ==
    /\ keycalls # NoKeyCalls
    /\ keycalls[1].html_content = keycalls[2].html_content
    /\ keycalls[1].extraction_type # keycalls[2].extraction_type
    /\ keycalls[1].key # keycalls[2].key
    /\ keycalls[1].key.digest = keycalls[2].key.digest

\* the parts of a page C19 calls volatile
C19_VolatileTags == {"script", "style", "meta"}
C19_VolatileAttrs == {"id", "data-timestamp", "data-time"}

\* two pages differ at most in the content of their script, style and meta
\* elements, in id, data-timestamp and data-time attributes and in the
\* characters of their runs of whitespace
DifferOnlyInVolatileParts(a, b) ==
    /\ Len(a) = Len(b)
    /\ \A i \in DOMAIN a :
          /\ a[i].tag = b[i].tag
          /\ (a[i].tag \notin C19_VolatileTags /\ ~IsWhitespace(a[i])) =>
                /\ a[i].text = b[i].text
                /\ (DOMAIN a[i].attrs) \ C19_VolatileAttrs
                      = (DOMAIN b[i].attrs) \ C19_VolatileAttrs
                /\ \A name \in (DOMAIN a[i].attrs) \ C19_VolatileAttrs :
                      a[i].attrs[name] = b[i].attrs[name]

\* C19: two HTML documents that differ only in volatile parts (the content
\* of script, style and meta elements, the attributes id, data-timestamp and
\* data-time, and runs of whitespace) normalize to identical text and get
\* the same cache key for the same mode.
C19_VolatilePartsIgnored ==
    keycalls # NoKeyCalls =>
        LET a == keycalls[1]
            b == keycalls[2]
        IN  DifferOnlyInVolatileParts(a.html_content, b.html_content) =>
                /\ a.normalized = b.normalized
                /\ a.extraction_type = b.extraction_type => a.key = b.key

\* two pages that differ in a script, in a meta's content, in a run of
\* whitespace and in an element's id and data-time got one key
C19_Witness ==
    /\ keycalls # NoKeyCalls
    /\ LET a == keycalls[1].html_content
           b == keycalls[2].html_content
       IN  /\ DifferOnlyInVolatileParts(a, b)
           /\ \E i \in DOMAIN a : a[i].tag = "script" /\ a[i].text # b[i].text
           /\ \E i \in DOMAIN a : a[i].tag = "meta" /\ a[i].attrs # b[i].attrs
           /\ \E i \in DOMAIN a : IsWhitespace(a[i]) /\ a[i].text # b[i].text
           /\ \E i \in DOMAIN a :
                 /\ "id" \in DOMAIN a[i].attrs
                 /\ "id" \notin DOMAIN b[i].attrs
                 /\ "data-time" \in DOMAIN b[i].attrs
    /\ keycalls[1].extraction_type = keycalls[2].extraction_type
    /\ keycalls[1].key = keycalls[2].key

(***************************************************************************)
(* Parsing the provider's text                                             *)
(***************************************************************************)
\* the text decodes neither as it is nor after the repair pass
Undecodable(text) ==
    /\ json_loads(text).raised # ""
    /\ json_loads(fix_json_response(text)).raised # ""

\* no entities, and the metadata flags the extraction as failed
EmptyAndFailed(data) ==
    /\ data.events = <<>>
    /\ data.speakers = <<>>
    /\ data.companies = <<>>
    /\ data.topics = <<>>
    /\ data.metadata = [extraction_quality |-> "failed"]

\* C20: parse_openai_response never raises on text that cannot be decoded
\* as JSON: when decoding fails both directly and after the one repair pass
\* it returns a dataset with empty events, speakers, companies and topics
\* whose metadata marks extraction_quality as failed, and extract_content
\* goes on to return a result built from it instead of failing.
C20_UndecodableTextDegrades ==
    [][\A t \in ExtTasks :
          (/\ ExtractFinish(t)
           /\ llm[t].pc = "returned"
           /\ Undecodable(llm[t].result[1].extracted_data))
          => LET parsed == parse_openai_response(llm[t].result[1].extracted_data)
             IN  /\ parsed.raised = ""
                 /\ EmptyAndFailed(parsed.data)
                 /\ ext'[t].pc = "done"
                 /\ ext'[t].error = ""
                 /\ ext'[t].result # None
                 /\ EmptyAndFailed(ext'[t].result[1].extracted_data)]_vars

\* a call returned its result after the provider had answered with a fenced
\* text that is no JSON even after the repair
C20_Witness ==
    \E t \in ExtTasks :
        /\ ext[t].pc = "done"
        /\ llm[t].pc = "returned"
        /\ Undecodable(llm[t].result[1].extracted_data)
        /\ llm[t].result[1].extracted_data.fence = "plain"
        /\ llm[t].result[1].extracted_data.kind = "object"
        /\ ~ext[t].result[1].cache_hit
        /\ EmptyAndFailed(ext[t].result[1].extracted_data)

(***************************************************************************)
(* Confidence scores                                                       *)
(***************************************************************************)
\* the score 1.0, and n tenths, in units
\* the score the scorer returned last
LastScore == last.ret[1]

\* C23: for every event, speaker and company, whatever fields are present
\* and whatever bonuses apply (keyword title, full name, social links), the
\* score returned by score_event, score_speaker and score_company lies in
\* [0, 1].
C23_ScoreInUnitInterval ==
    last.op \in ScoreOps => (0 <= LastScore /\ LastScore <= One)

\* an event with a keyword title and every other field at its best scored 1
C23_Witness ==
    /\ last.op = "score_event"
    /\ Has(last.value, "title")
    /\ IsKind(last.value, "title", "keyword")
    /\ EventPoints(last.value) = 10500
    /\ LastScore = One

\* the fields C24 speaks of: for an event a validly formatted date, a
\* location, a description or an auxiliary field; for a speaker title,
\* company, bio or a valid link; for a company website, description,
\* industry or relationship type
C24_Adds(op, field, value) ==
    CASE op = "score_event" ->
           \/ field \in {"location", "description"} \cup EventBonusFields
           \/ field = "date" /\ value.kind = "date"
      [] op = "score_speaker" ->
           \/ field \in {"title", "company", "bio"}
           \/ field \in SpeakerLinks /\ value.kind = "url"
      [] op = "score_company" ->
           field \in {"website_url", "description", "industry", "relationship_type"}

\* C24: adding a field that was missing to an entity, all other fields left
\* unchanged, never decreases the entity's score.
C24_AddingFieldNeverLowersScore ==
    [][\A field \in FieldNames :
          (/\ last.op \in ScoreOps
           /\ field \notin DOMAIN last.value
           /\ field \in DOMAIN last'.value
           /\ AddField(field, last'.value[field])
           /\ C24_Adds(last.op, field, last'.value[field]))
          => last'.ret[1] >= LastScore]_vars

\* an event was given a location too short to earn points: its score is the
\* score it has without the location
C24_Witness ==
    /\ last.op = "score_event"
    /\ Has(last.value, "title")
    /\ Has(last.value, "location")
    /\ StripLen(last.value, "location") <= 3
    /\ LastScore > 0
    /\ LastScore = score_event([f \in (DOMAIN last.value) \ {"location"} |-> last.value[f]])

\* the two events of C28: "AI Summit 2024" on 2024-06-15 in "SF" with a
\* description of more than 50 characters, and the event titled "Event"
C28_Summit ==
    ("title" :> Str(14, 0, "keyword")) @@ ("date" :> Str(10, 0, "date"))
    @@ ("location" :> Str(2, 0, "plain")) @@ ("description" :> Str(51, 0, "plain"))
C28_TitleOnly == ("title" :> Str(5, 0, "plain"))

\* C28: score_event gives the event {title: "AI Summit 2024", date:
\* "2024-06-15", location: "SF", description of more than 50 characters} a
\* score of at least 0.8, and the event {title: "Event"} a score below 0.5.
\* (Fails: "SF" is not longer than 3 characters and earns nothing, so the
\* first event scores 75 / 105.)
C28_ExampleScores ==
    last.op = "score_event" =>
        /\ last.value = C28_Summit => LastScore >= Tenths(8)
        /\ last.value = C28_TitleOnly => LastScore < Tenths(5)

\* len(s): the characters of a string, those strip() removes included
RawLen(entity, field) == entity[field].chars + entity[field].padding

\* an event that has a title and nothing else
TitleOnlyEvents == {("title" :> title) : title \in EventFieldValues.title}

\* C30 as stated: an event with a title longer than 5 characters, a
\* description longer than 50 characters, a validly formatted date and a
\* location longer than 3 characters scores above 0.8, and an event that has
\* only a title scores strictly lower.  (Fails: the scorer measures the
\* strings after strip(), so a description of 54 characters of which 45 are
\* surrounding whitespace earns nothing.)
C30_CompleteEventScoresHigh ==
    (/\ last.op = "score_event"
     /\ {"title", "description", "date", "location"} \subseteq DOMAIN last.value
     /\ RawLen(last.value, "title") > 5
     /\ RawLen(last.value, "description") > 50
     /\ IsKind(last.value, "date", "date")
     /\ RawLen(last.value, "location") > 3)
    => /\ LastScore > Tenths(8)
       /\ \A only \in TitleOnlyEvents : score_event(only) < LastScore

\* C30, amended: an event whose title is longer than 5 characters, whose
\* description is longer than 50 characters and whose location is longer
\* than 3 characters, each measured without the whitespace around it, and
\* whose date is validly formatted scores above 0.8, and an event that has
\* only a title scores strictly lower.
C30_CompleteStrippedEventScoresHigh ==
    (/\ last.op = "score_event"
     /\ {"title", "description", "date", "location"} \subseteq DOMAIN last.value
     /\ StripLen(last.value, "title") > 5
     /\ StripLen(last.value, "description") > 50
     /\ IsKind(last.value, "date", "date")
     /\ StripLen(last.value, "location") > 3)
    => /\ LastScore > Tenths(8)
       /\ \A only \in TitleOnlyEvents : score_event(only) < LastScore

\* a complete event without a keyword in its title and without auxiliary
\* fields scored 0.9
C30_Witness ==
    /\ last.op = "score_event"
    /\ DOMAIN last.value = {"title", "description", "date", "location"}
    /\ StripLen(last.value, "title") > 5
    /\ ~IsKind(last.value, "title", "keyword")
    /\ StripLen(last.value, "description") > 50
    /\ IsKind(last.value, "date", "date")
    /\ StripLen(last.value, "location") > 3
    /\ LastScore = Tenths(9)

(***************************************************************************)
(* Filtering by confidence                                                 *)
(***************************************************************************)
\* an entity without the confidence_score written into it
OwnFields(entity) == [k \in DOMAIN entity \ {"confidence_score"} |-> entity[k]]

\* the dataset the provider answered with, the threshold of the call and the
\* dataset the call returns
Answered(t) == llm[t].result[1].extracted_data.value
Returned(t) == ext'[t].result[1].extracted_data

\* the call ends with a result built from the provider's JSON object
FinishesFiltered(t) ==
    /\ ExtractFinish(t)
    /\ llm[t].pc = "returned"
    /\ llm[t].result[1].extracted_data.kind = "object"
    /\ ext'[t].result # None

\* one task's call is over with a result that was not read from the cache
FilteredResult(t) ==
    /\ ext[t].pc = "done"
    /\ ext[t].result # None
    /\ ~ext[t].result[1].cache_hit
    /\ llm[t].pc = "returned"

\* C25: validate_and_filter retains an event, speaker or company exactly
\* when its score is at least the confidence threshold of the call: an
\* entity scoring the threshold or more is in the result, one scoring less
\* is not.
C25_RetainedIffScoreReachesThreshold ==
    [][\A t \in ExtTasks :
          FinishesFiltered(t)
          => \A kind \in EntityKinds :
                \A i \in 1..Len(Answered(t)[kind]) :
                    (\E j \in 1..Len(Returned(t)[kind]) :
                        OwnFields(Returned(t)[kind][j]) = OwnFields(Answered(t)[kind][i]))
                    <=> ScoreOfKind(kind, Answered(t)[kind][i]) * 100
                            >= ext[t].threshold * One]_vars

\* at threshold 0.75 the answer held an event scoring 0.55 and one scoring
\* exactly 0.75: only the second is returned
C25_Witness ==
    \E t \in ExtTasks :
        /\ FilteredResult(t)
        /\ ext[t].threshold = 75
        /\ Answered(t).events = <<TestEvent, GoodEvent>>
        /\ ext[t].result[1].extracted_data.events = <<KeptGoodEvent>>

RECURSIVE IsSubsequence(_, _)
IsSubsequence(sub, seq) ==
    IF sub = <<>> THEN TRUE
    ELSE IF seq = <<>> THEN FALSE
    ELSE IF Head(sub) = Head(seq) THEN IsSubsequence(Tail(sub), Tail(seq))
    ELSE IsSubsequence(sub, Tail(seq))

\* C26: validate_and_filter returns topics and metadata as they came; the
\* retained events, speakers and companies are, in their order, a
\* subsequence of the input lists, and each carries a confidence_score equal
\* to the score computed for it, also when the provider had written a
\* confidence_score of its own into the entity.
C26_FilterKeepsOrderAndWritesScore ==
    [][\A t \in ExtTasks :
          FinishesFiltered(t)
          => /\ Returned(t).topics = Answered(t).topics
             /\ Returned(t).metadata = Answered(t).metadata
             /\ \A kind \in EntityKinds :
                   /\ IsSubsequence(Map(Returned(t)[kind], OwnFields),
                                    Map(Answered(t)[kind], OwnFields))
                   /\ \A j \in 1..Len(Returned(t)[kind]) :
                         /\ "confidence_score" \in DOMAIN Returned(t)[kind][j]
                         /\ Returned(t)[kind][j].confidence_score
                              = ScoreOfKind(kind, OwnFields(Returned(t)[kind][j]))]_vars

\* of three events the second was dropped, the first came with a
\* confidence_score of 0.1 and is returned with 0.75; topics came back
C26_Witness ==
    \E t \in ExtTasks :
        /\ FilteredResult(t)
        /\ Answered(t).events = <<OwnScoreEvent, WeakEvent, GoodEvent>>
        /\ Answered(t).events[1].confidence_score = Tenths(1)
        /\ Len(ext[t].result[1].extracted_data.events) = 2
        /\ ext[t].result[1].extracted_data.events[1].confidence_score = Hundredths(75)
        /\ ext[t].result[1].extracted_data.events[2] = KeptGoodEvent
        /\ ext[t].result[1].extracted_data.topics = <<"ai", "ml">>

\* the confidence_score fields of all retained entities
RetainedScores(data) ==
    Map(data.events \o data.speakers \o data.companies,
        LAMBDA entity : entity.confidence_score)

\* C27: the overall confidence of a result is the arithmetic mean of the
\* confidence_score of all retained events, speakers and companies taken
\* together, and 0 when nothing is retained.
C27_OverallIsMeanOfRetained ==
    [][\A t \in ExtTasks :
          FinishesFiltered(t)
          => LET overall == ext'[t].result[1].confidence_scores.overall
                 scores == RetainedScores(Returned(t))
             IN  /\ overall.n = Len(scores)
                 /\ overall.sum = SeqSum(scores)
                 /\ scores = <<>> => overall = Mean(<<>>)]_vars

\* a result with two events, one speaker and one company: the overall
\* confidence is the mean of four scores and differs from the events' mean
C27_Witness ==
    \E t \in ExtTasks :
        /\ FilteredResult(t)
        /\ Len(ext[t].result[1].extracted_data.events) = 2
        /\ Len(ext[t].result[1].extracted_data.speakers) = 1
        /\ Len(ext[t].result[1].extracted_data.companies) = 1
        /\ ext[t].result[1].confidence_scores.overall.n = 4
        /\ ext[t].result[1].confidence_scores.overall.sum
             = 3 * Hundredths(75) + Tenths(8)

\* C29: on a cache miss, when the provider answers with a JSON object that
\* holds one event with a title and a validly formatted date, and the call
\* uses the default threshold, the result has cache_hit false, names the
\* provider's model, retains the event and has an overall confidence
\* above 0.
C29_MissWithOneEventRetainsIt ==
    [][\A t \in ExtTasks :
          (/\ FinishesFiltered(t)
           /\ Answered(t).events = <<TestEvent>>
           /\ ext[t].threshold = 70)
          => /\ ~ext'[t].result[1].cache_hit
             /\ ext'[t].result[1].model_used = llm[t].result[1].model
             /\ Len(Returned(t).events) = 1
             /\ ext'[t].result[1].confidence_scores.overall.sum > 0]_vars


(***************************************************************************)
(* Datasets returned by parse_openai_response                              *)
(***************************************************************************)
\* the text the provider answered with
ProviderText(t) == llm[t].result[1].extracted_data

\* the call goes on from a text the provider returned
ParsesText(t) ==
    /\ ExtractFinish(t)
    /\ llm[t].pc = "returned"

\* the same text without its fence and without its trailing comma
Unwrapped(text) == [text EXCEPT !.fence = "", !.trailing_comma = FALSE]

\* C21: every dataset parse_openai_response returns has the five top-level
\* fields events, speakers, companies, topics and metadata, and a field the
\* provider omitted holds its empty default, whether the text decoded
\* directly or only after the repair pass.
C21_ParsedDatasetHasAllFields ==
    [][\A t \in ExtTasks :
          (/\ ParsesText(t)
           /\ ProviderText(t).kind = "object"
           /\ parse_openai_response(ProviderText(t)).raised = "")
          => LET data == parse_openai_response(ProviderText(t)).data
             IN  /\ RequiredKeys \subseteq DOMAIN data
                 /\ \A key \in RequiredKeys \ DOMAIN ProviderText(t).value :
                       data[key] = <<>>]_vars

\* C22: fix_json_response returns a text that is already valid JSON as it
\* is, and a JSON object in a code fence (opened with or without a language
\* tag) or with a comma before a closing bracket is parsed to the same
\* structure as the text without the fence and the comma.
C22_RepairKeepsStructure ==
    [][\A t \in ExtTasks :
          ParsesText(t)
          => /\ json_loads(ProviderText(t)).raised = ""
                => fix_json_response(ProviderText(t)) = ProviderText(t)
             /\ (/\ ProviderText(t).kind = "object"
                 /\ ProviderText(t).braced
                 /\ ProviderText(t).fence # "" \/ ProviderText(t).trailing_comma)
                => parse_openai_response(ProviderText(t))
                     = parse_openai_response(Unwrapped(ProviderText(t)))]_vars


(***************************************************************************)
(* Recency of a key that was set                                           *)
(***************************************************************************)
\* the step is a set that inserts a new key other than the one set just
\* before it
InsertsAnotherKey ==
    /\ last.op = "set"
    /\ last.ok
    /\ last.key \in DOMAIN cache
    /\ \E k \in Keys \ (DOMAIN cache \cup {last.key}), v \in Values, ttl \in TTLs :
          Set(k, v, ttl) \/ ServiceSet(k, v, ttl)

\* C38: after MemoryCache.set(k, v) on a key k, new or already stored, k is
\* the most recently used entry: in a store of capacity at least 2 the
\* eviction caused by inserting a different new key right afterwards never
\* removes k.
C38_SetKeyIsMostRecent ==
    [][(InsertsAnotherKey /\ max_size >= 2)
         => (last'.evicted # Some(last.key) /\ last.key \in DOMAIN cache')]_vars


(***************************************************************************)
(* Progress of the store's callers                                         *)
(***************************************************************************)
\* C40: no MemoryCache operation deadlocks: under every interleaving of
\* concurrent get, set and delete calls, a call that has arrived at the
\* lock eventually returns and the lock is then not held by its task; this
\* includes a get that finds its entry expired and removes it while it
\* holds the lock.
C40_EveryCallReturns ==
    \A t \in Tasks :
        (pc[t] # "idle") ~> (pc[t] = "idle" /\ lock # Some(t))

\* a get found its entry expired, removed it and returned, the lock is free
\* again, and the other task is waiting at the lock
C40_Witness ==
    /\ last.op = "get"
    /\ last.expired
    /\ last.ret = None
    /\ lock = None
    /\ \E t \in Tasks : pc[t] = "idle" /\ \E u \in Tasks \ {t} : pc[u] = "acquire"


(***************************************************************************)
(* extract_content without the cache                                       *)
(***************************************************************************)
\* task t starts a call with use_cache false
BeginsUncached(t) ==
    /\ ext[t].pc \in {"idle", "done", "failed"}
    /\ ext'[t].pc # ext[t].pc \/ ext'[t].start_time # ext[t].start_time
         \/ ext'[t].steps # ext[t].steps
    /\ ~ext'[t].use_cache

\* task t ends a call with use_cache false
EndsUncached(t) ==
    /\ ext[t].pc = "awaiting"
    /\ ext'[t].pc \in {"done", "failed"}
    /\ ~ext[t].use_cache

\* C37: a call of extract_content with use_cache false neither reads nor
\* writes the cache: the provider is invoked even if an entry for the key
\* is stored, the result has cache_hit false, and the cache is the same
\* after the call as before it.
C37_UncachedCallLeavesCache ==
    [][\A t \in ExtTasks :
          /\ BeginsUncached(t)
             => /\ cache' = cache
                /\ access_order' = access_order
                /\ ext'[t].pc = "awaiting"
                /\ llm'[t] = LLMStarted("extract_content")
                /\ Count(ext'[t].steps, "cache_lookup") = 0
          /\ EndsUncached(t)
             => /\ cache' = cache
                /\ access_order' = access_order
                /\ Count(ext'[t].steps, "cache_write") = 0
                /\ ext'[t].result # None => ~ext'[t].result[1].cache_hit]_vars

\* a call with use_cache false returned a fresh result while the cache held
\* a live entry for its key, written by an earlier call
C37_Witness ==
    \E t \in ExtTasks :
        /\ ext[t].pc = "done"
        /\ ~ext[t].use_cache
        /\ ext[t].result # None
        /\ ~ext[t].result[1].cache_hit
        /\ ext[t].result[1].extracted_data.events = <<KeptGoodEvent>>
        /\ CallKey(ext[t]) \in DOMAIN cache
        /\ now - cache[CallKey(ext[t])].created_at <= CacheService_ttl
        /\ cache[CallKey(ext[t])].value.extracted_data.events = <<>>


(***************************************************************************)
(* The provider input                                                      *)
(***************************************************************************)
\* the page preprocess_html was called on last, and the content it returned
Page == last.value
Content == last.ret[1]

\* the text is in the content: it is the text of a node of the cleaned HTML
\* or a datum of the JSON-LD hints
Contains(content, text) ==
    \/ \E i \in 1..Len(content.cleaned) : content.cleaned[i].text = text
    \/ /\ "json_ld" \in DOMAIN content.hints
       /\ \E i \in 1..Len(content.hints.json_ld) : content.hints.json_ld[i] = text

ScriptsOf(page) == {i \in 1..Len(page) : page[i].tag = "script" /\ page[i].text # ""}

\* headings and paragraphs (they are not within an element that is removed)
ContentTags == {"h1", "h2", "h3", "h4", "h5", "h6", "p"}
ContentElementsOf(page) == {i \in 1..Len(page) : page[i].tag \in ContentTags}

\* a JSON-LD script whose text decodes: its data is given as a hint
IsJsonLdData(node) ==
    /\ "type" \in DOMAIN node.attrs
    /\ node.attrs["type"] = "application/ld+json"
    /\ node.text \in DOMAIN JsonLdDumps

UncutChars(page) == HintChars(extract_structured_data(page)) + SumChars(clean_html(page))

\* C32: the content passed to the provider is at most MaxContentLen
\* characters long, for every input, and it carries the truncation marker
\* exactly when the hinted and cleaned content was longer than that.
C32_ContentWithinMaximum ==
    last.op = "preprocess_html"
    => /\ Content.chars <= MaxContentLen
       /\ Content.truncated <=> UncutChars(Page) > MaxContentLen


(***************************************************************************)
(* Cache keys and the provider input                                       *)
(***************************************************************************)
\* C36: two HTML inputs that get the same cache key for a mode are
\* preprocessed to the same provider input, so that a cache hit never
\* returns a result extracted from another provider input; in particular,
\* inputs that differ in their JSON-LD scripts or Open-Graph metas only do
\* not share a key.
C36_SameKeySameProviderInput ==
    keycalls # NoKeyCalls =>
        LET a == keycalls[1]
            b == keycalls[2]
        IN  (a.extraction_type = b.extraction_type /\ a.key = b.key)
            => preprocess_html(a.html_content) = preprocess_html(b.html_content)


(***************************************************************************)
(* Batch embedding                                                         *)
(***************************************************************************)
\* the number of provider calls a batch call needs when none fails
ChunksOf(rec) == (Len(rec.texts) + rec.batch_size - 1) \div rec.batch_size

\* C33: in batch_generate_embeddings a failure of the provider call for a
\* chunk ends the whole call with OpenAIServiceError: nothing is returned,
\* not even the embeddings of the chunks before it, no later chunk is sent,
\* and the chunk is not sent again.
C33_ChunkFailureAbortsBatch ==
    [][\A t \in Tasks :
          /\ (\E e \in TransientErrors \cup FatalErrors : EmbedBatchChunk(t, e))
             => /\ llm'[t].pc = "raised"
                /\ llm'[t].error = "OpenAIServiceError"
                /\ llm'[t].result = None
                /\ Len(llm'[t].log) = Len(llm[t].log) + 1
          /\ (llm[t].pc = "raised" /\ llm[t].fn = "batch_generate_embeddings")
             => \/ llm'[t] = llm[t]
                \/ llm'[t].log = <<>>]_vars

\* the first of three chunks was answered, the second failed on a transient
\* error: the call has failed after two provider calls and returns nothing
C33_Witness ==
    \E t \in Tasks :
        /\ llm[t].fn = "batch_generate_embeddings"
        /\ llm[t].pc = "raised"
        /\ ChunksOf(llm[t]) = 3
        /\ llm[t].log = <<"", "RateLimitError">>
        /\ llm[t].embeddings = <<EmbeddingOf("a")>>
        /\ llm[t].result = None


(***************************************************************************)
(* What is written to the cache                                            *)
(***************************************************************************)
\* C34: only successful extractions are cached: a result whose dataset is
\* the parser's fallback (empty lists, extraction_quality failed) is not
\* written to the cache, so that no later call gets the failed result as a
\* cache hit.
C34_FailedParseNotCached ==
    [][\A t \in ExtTasks :
          /\ (ParsesText(t) /\ Undecodable(ProviderText(t)))
             => /\ cache' = cache
                /\ access_order' = access_order
          /\ (ext'[t].result # None /\ ext'[t].result[1].cache_hit)
             => ~EmptyAndFailed(ext'[t].result[1].extracted_data)]_vars


(***************************************************************************)
(* Thresholds and cached results                                           *)
(***************************************************************************)
\* C35: every event, speaker and company of a result that extract_content
\* returns has a confidence_score of at least the confidence threshold of
\* the call, whether the result is fresh or was read from the cache after
\* an earlier call with another threshold.
C35_ResultMeetsCallThreshold ==
    \A t \in ExtTasks :
        (ext[t].pc = "done" /\ ext[t].result # None)
        => \A kind \in EntityKinds :
              \A i \in 1..Len(ext[t].result[1].extracted_data[kind]) :
                  ext[t].result[1].extracted_data[kind][i].confidence_score * 100
                      >= ext[t].threshold * One


(***************************************************************************)
(* Concurrent calls for one page                                           *)
(***************************************************************************)
\* the items of the running batch all ask for the same page in the same
\* mode, and the provider has answered every one of them
SamePageBatch ==
    /\ batch.pc = "done"
    /\ Len(batch.requests) >= 2
    /\ \A i \in 1..Len(batch.requests) :
          /\ batch.requests[i].html_content = batch.requests[1].html_content
          /\ batch.requests[i].extraction_type = batch.requests[1].extraction_type
          /\ batch.requests[i].use_cache

\* item i missed the cache
Missed(i) == ext[i].result = None \/ ~ext[i].result[1].cache_hit

\* the provider has answered item i with text that parse_openai_response
\* turns into a dataset
Accepted(i) ==
    /\ llm[i].pc = "returned"
    /\ ParseSucceeded(parse_openai_response(llm[i].result[1].extracted_data))

\* the number of places of key in the recency list
Places(key) == Cardinality({n \in 1..Len(access_order) : access_order[n] = key})

\* how the items of a batch for one page end
SamePageOutcome ==
    (SamePageBatch /\ \A i \in 1..Len(batch.requests) : Missed(i))
    => LET n == Len(batch.requests)
           key == generate_cache_key(batch.requests[1].html_content,
                                     batch.requests[1].extraction_type)
       IN  /\ \A i \in 1..n :
                 /\ llm[i].fn = "extract_content"
                 /\ Len(llm[i].log) >= 1
                 /\ Accepted(i) => /\ ext[i].pc = "done"
                                   /\ batch.results[i].success
           /\ (\E i \in 1..n : ext[i].pc = "done")
              => /\ key \in DOMAIN cache
                 /\ Places(key) = 1
                 /\ \E i \in 1..n :
                       /\ ext[i].pc = "done"
                       /\ cache[key].value = to_cache_format(ext[i].result[1])

\* while the cache is empty, an item that starts misses and invokes the
\* provider
StartsOnEmptyCache(i) ==
    /\ batch.pc = "gathering"
    /\ cache = <<>>
    /\ i \in DOMAIN ext
    /\ ext[i].pc = "idle"
    /\ ext'[i].pc # "idle"

====
